---------------------------- MODULE Spec2Model ----------------------------
(***************************************************************************)
(* Model of the Bedrock chat adapter: the tool-call reconstruction buffer  *)
(* (ToolCallBufferManager), the stream event processor (StreamProcessor),   *)
(* the request validator (validateRequest), the message converter          *)
(* (convertMessages), the metadata cache and the capability services       *)
(* (CacheService, OpenRouterClient, ModelService), the tool converter       *)
(* (convertTools, sanitizeSchema, sanitizeFunctionName) and the chat        *)
(* request handler (ChatRequestHandler.handleChatRequest).                  *)
(*                                                                         *)
(* Text is a sequence of one-character strings, so that JSON parsing and   *)
(* serialisation are computed character by character.                      *)
(***************************************************************************)
EXTENDS Integers, Sequences, FiniteSets, TLC

(***************************************************************************)
(* Bounds of the exploration.                                               *)
(***************************************************************************)
\* events one processStream model run may consume, over all sequential calls
MaxEvents == 4
\* sequential processStream calls on the same StreamProcessor instance
MaxRuns == 2
\* longest message list handed to validateRequest / convertMessages
MaxMsgs == 4

(***************************************************************************)
(* Sequence helpers.                                                        *)
(***************************************************************************)
RECURSIVE SeqToSet(_)
SeqToSet(s) ==
  IF s = <<>> THEN {} ELSE {Head(s)} \cup SeqToSet(Tail(s))

(***************************************************************************)
(* JSON.parse, restricted to the characters                                 *)
(*     { } [ ] " : , space  0..9  and the letters used inside strings.      *)
(* A parsed value is a record [t, v]:                                       *)
(*   t = "obj": v is the sequence of [k, v] properties in the order         *)
(*              JavaScript enumerates own properties;                       *)
(*   t = "arr": v is the sequence of elements;                              *)
(*   t = "str": v is the sequence of characters;                            *)
(*   t = "num": v is the sequence <<n>> of the one natural number n;        *)
(*   t = "bool": v is the sequence <<b>> of the one truth value b;          *)
(*   t = "null": v is empty.  JSON.parse is modelled for the first four.    *)
(***************************************************************************)
Digits == {"0", "1", "2", "3", "4", "5", "6", "7", "8", "9"}

DigitVal(c) ==
  CASE c = "0" -> 0 [] c = "1" -> 1 [] c = "2" -> 2 [] c = "3" -> 3
    [] c = "4" -> 4 [] c = "5" -> 5 [] c = "6" -> 6 [] c = "7" -> 7
    [] c = "8" -> 8 [] c = "9" -> 9

DigitChar(n) ==
  CASE n = 0 -> "0" [] n = 1 -> "1" [] n = 2 -> "2" [] n = 3 -> "3"
    [] n = 4 -> "4" [] n = 5 -> "5" [] n = 6 -> "6" [] n = 7 -> "7"
    [] n = 8 -> "8" [] n = 9 -> "9"

RECURSIVE CharsToNat(_, _)
CharsToNat(ds, acc) ==
  IF ds = <<>> THEN acc ELSE CharsToNat(Tail(ds), acc * 10 + DigitVal(Head(ds)))

RECURSIVE NatToChars(_)
NatToChars(n) ==
  IF n < 10 THEN <<DigitChar(n)>> ELSE NatToChars(n \div 10) \o <<DigitChar(n % 10)>>

ParseFail == [ok |-> FALSE, val |-> <<>>, pos |-> 0]

ParseOk(val, pos) == [ok |-> TRUE, val |-> val, pos |-> pos]

RECURSIVE SkipWs(_, _)
SkipWs(s, i) ==
  IF i <= Len(s) /\ s[i] = " " THEN SkipWs(s, i + 1) ELSE i

RECURSIVE FindQuote(_, _)
\* position of the first double quote at or after j, 0 when there is none
FindQuote(s, j) ==
  IF j > Len(s) THEN 0 ELSE IF s[j] = "\"" THEN j ELSE FindQuote(s, j + 1)

\* s[i] is the opening quote
ParseString(s, i) ==
  LET j == FindQuote(s, i + 1) IN
  IF j = 0 THEN ParseFail
  ELSE ParseOk([t |-> "str", v |-> SubSeq(s, i + 1, j - 1)], j + 1)

RECURSIVE DigitsEnd(_, _)
\* first position at or after i that holds no digit
DigitsEnd(s, i) ==
  IF i <= Len(s) /\ s[i] \in Digits THEN DigitsEnd(s, i + 1) ELSE i

\* s[i] is a digit; a JSON number has no leading zero
ParseNumber(s, i) ==
  LET e == IF s[i] = "0" THEN i + 1 ELSE DigitsEnd(s, i) IN
  ParseOk([t |-> "num", v |-> <<CharsToNat(SubSeq(s, i, e - 1), 0)>>], e)

\* an array index in the sense of ECMAScript: a canonical numeric string
\* below 2^32 - 1; keys of ten digits and more do not fit the argument texts
\* explored here and count as ordinary keys
IsArrayIndex(k) ==
  /\ k # <<>>
  /\ \A i \in 1..Len(k) : k[i] \in Digits
  /\ (k[1] = "0" => Len(k) = 1)
  /\ Len(k) <= 9

RECURSIVE InsertIndexKey(_, _, _)
InsertIndexKey(props, k, v) ==
  IF props = <<>> THEN <<[k |-> k, v |-> v]>>
  ELSE IF IsArrayIndex(Head(props).k) /\ CharsToNat(Head(props).k, 0) < CharsToNat(k, 0)
       THEN <<Head(props)>> \o InsertIndexKey(Tail(props), k, v)
       ELSE <<[k |-> k, v |-> v]>> \o props

\* defining property k of an object under construction: a repeated key keeps
\* its place and takes the new value, integer keys come first in ascending
\* order, every other key is appended
ObjSet(props, k, v) ==
  IF \E i \in 1..Len(props) : props[i].k = k
  THEN [i \in 1..Len(props) |-> IF props[i].k = k THEN [k |-> k, v |-> v] ELSE props[i]]
  ELSE IF IsArrayIndex(k) THEN InsertIndexKey(props, k, v)
  ELSE Append(props, [k |-> k, v |-> v])

RECURSIVE ParseValue(_, _)
RECURSIVE ParseMembers(_, _, _)
RECURSIVE ParseElements(_, _, _)

\* members of an object from position i (whitespace skipped), up to the closing brace
ParseMembers(s, i, props) ==
  IF i > Len(s) \/ s[i] # "\"" THEN ParseFail
  ELSE LET key == ParseString(s, i) IN
       IF ~key.ok THEN ParseFail
       ELSE LET c == SkipWs(s, key.pos) IN
            IF c > Len(s) \/ s[c] # ":" THEN ParseFail
            ELSE LET val == ParseValue(s, c + 1) IN
                 IF ~val.ok THEN ParseFail
                 ELSE LET n == SkipWs(s, val.pos)
                          acc == ObjSet(props, key.val.v, val.val)
                      IN IF n > Len(s) THEN ParseFail
                         ELSE IF s[n] = "," THEN ParseMembers(s, SkipWs(s, n + 1), acc)
                         ELSE IF s[n] = "}" THEN ParseOk([t |-> "obj", v |-> acc], n + 1)
                         ELSE ParseFail

\* elements of an array from position i, up to the closing bracket
ParseElements(s, i, elems) ==
  LET val == ParseValue(s, i) IN
  IF ~val.ok THEN ParseFail
  ELSE LET n == SkipWs(s, val.pos)
           acc == Append(elems, val.val)
       IN IF n > Len(s) THEN ParseFail
          ELSE IF s[n] = "," THEN ParseElements(s, n + 1, acc)
          ELSE IF s[n] = "]" THEN ParseOk([t |-> "arr", v |-> acc], n + 1)
          ELSE ParseFail

ParseValue(s, i) ==
  LET j == SkipWs(s, i) IN
  IF j > Len(s) THEN ParseFail
  ELSE IF s[j] = "{"
       THEN LET k == SkipWs(s, j + 1) IN
            IF k <= Len(s) /\ s[k] = "}" THEN ParseOk([t |-> "obj", v |-> <<>>], k + 1)
            ELSE ParseMembers(s, k, <<>>)
  ELSE IF s[j] = "["
       THEN LET k == SkipWs(s, j + 1) IN
            IF k <= Len(s) /\ s[k] = "]" THEN ParseOk([t |-> "arr", v |-> <<>>], k + 1)
            ELSE ParseElements(s, k, <<>>)
  ELSE IF s[j] = "\"" THEN ParseString(s, j)
  ELSE IF s[j] \in Digits THEN ParseNumber(s, j)
  ELSE ParseFail

\* JSON.parse: one value, surrounded by optional whitespace, and nothing else
JSONParse(s) ==
  LET r == ParseValue(s, 1) IN
  IF r.ok /\ SkipWs(s, r.pos) > Len(s) THEN [ok |-> TRUE, value |-> r.val]
  ELSE [ok |-> FALSE, value |-> <<>>]

RECURSIVE JSONStringify(_)
RECURSIVE StringifyProps(_)
RECURSIVE StringifyElems(_)

StringifyProps(props) ==
  IF props = <<>> THEN <<>>
  ELSE <<"\"">> \o Head(props).k \o <<"\"", ":">> \o JSONStringify(Head(props).v)
       \o (IF Len(props) > 1 THEN <<",">> ELSE <<>>) \o StringifyProps(Tail(props))

\* the elements joined by commas, one half of the array after the other
StringifyElems(elems) ==
  IF elems = <<>> THEN <<>>
  ELSE IF Len(elems) = 1 THEN JSONStringify(elems[1])
  ELSE StringifyElems(SubSeq(elems, 1, Len(elems) \div 2)) \o <<",">>
       \o StringifyElems(SubSeq(elems, Len(elems) \div 2 + 1, Len(elems)))

\* JSON.stringify without indentation: properties in enumeration order
JSONStringify(val) ==
  IF val.t = "obj" THEN <<"{">> \o StringifyProps(val.v) \o <<"}">>
  ELSE IF val.t = "arr" THEN <<"[">> \o StringifyElems(val.v) \o <<"]">>
  ELSE IF val.t = "str" THEN <<"\"">> \o val.v \o <<"\"">>
  ELSE IF val.t = "bool"
       THEN (IF val.v[1] THEN <<"t", "r", "u", "e">> ELSE <<"f", "a", "l", "s", "e">>)
  ELSE IF val.t = "null" THEN <<"n", "u", "l", "l">>
  ELSE NatToChars(val.v[1])

RECURSIVE DeepEqual(_, _)
\* assert.deepEqual on parsed JSON values: property order is irrelevant
DeepEqual(a, b) ==
  IF a.t # b.t THEN FALSE
  ELSE IF a.t = "obj"
       THEN /\ {a.v[i].k : i \in 1..Len(a.v)} = {b.v[i].k : i \in 1..Len(b.v)}
            /\ \A i \in 1..Len(a.v) : \A j \in 1..Len(b.v) :
                 a.v[i].k = b.v[j].k => DeepEqual(a.v[i].v, b.v[j].v)
  ELSE IF a.t = "arr"
       THEN /\ Len(a.v) = Len(b.v)
            /\ \A i \in 1..Len(a.v) : DeepEqual(a.v[i], b.v[i])
  ELSE a.v = b.v

\* converters/schema tryParseJSONObject
tryParseJSONObject(text) ==
  IF text = <<>> \/ ~(\E i \in 1..Len(text) : text[i] = "{")
  THEN [ok |-> FALSE, value |-> <<>>]
  ELSE LET r == JSONParse(text) IN
       IF r.ok /\ r.value.t = "obj" THEN [ok |-> TRUE, value |-> r.value]
       ELSE [ok |-> FALSE, value |-> <<>>]

(***************************************************************************)
(* The progress sink and the logger, as seen from one event handler.       *)
(* out is the sequence of parts handed to progress.report while the event  *)
(* is handled, log the set of logger entries.       failAt = n > 0 makes   *)
(* the n-th report call of the event raise, failAt = 0 makes none raise;   *)
(* rnd stands for the characters Math.random() contributes to an id.       *)
(***************************************************************************)
NewEnv(failAt, rnd) ==
  [out |-> <<>>, log |-> {}, failAt |-> failAt, threw |-> FALSE, rnd |-> rnd]

\* progress.report(part)
Report(env, part) ==
  [env EXCEPT !.out = Append(@, part), !.threw = (env.failAt = Len(env.out) + 1)]

\* logger.log / logger.warn / logger.error
Log(env, entry) == [env EXCEPT !.log = @ \cup {entry}]

TextPart(value) == [kind |-> "Text", value |-> value]

ThinkingPart(value) == [kind |-> "Thinking", value |-> value]

\* vscode.LanguageModelToolCallPart(callId, name, input); index is not a field
\* of the part: it records the content-block index the part was emitted for
ToolCallPart(callId, name, input, index) ==
  [kind |-> "ToolCall", callId |-> callId, name |-> name, input |-> input, index |-> index]

(***************************************************************************)
(* ToolCallBufferManager.  buffers is the Map<number, ToolCallBuffer> as    *)
(* the sequence of its entries in insertion order.                          *)
(***************************************************************************)
\* an id that is undefined (ToolCallBuffer.id is optional)
Undefined == <<"undefined">>

InitToolBuffer ==
  [buffers |-> <<>>, completedIndices |-> {}, emittedToolCallKeys |-> {},
   hasText |-> FALSE, firstTool |-> TRUE]

\* position of the entry of index in the map, 0 when the map has none
BufPos(tb, index) ==
  IF \E i \in 1..Len(tb.buffers) : tb.buffers[i].index = index
  THEN CHOOSE i \in 1..Len(tb.buffers) : tb.buffers[i].index = index
  ELSE 0

\* Map.delete
BufDelete(tb, index) ==
  LET p == BufPos(tb, index) IN
  IF p = 0 THEN tb
  ELSE [tb EXCEPT !.buffers = SubSeq(@, 1, p - 1) \o SubSeq(@, p + 1, Len(@))]

reset(tb) == InitToolBuffer

startToolCall(tb, index, toolUseId, name) ==
  LET p == BufPos(tb, index)
      entry == [index |-> index, id |-> toolUseId, name |-> name, args |-> <<>>]
  IN IF p = 0 THEN [tb EXCEPT !.buffers = Append(@, entry)]
     ELSE [tb EXCEPT !.buffers[p] = entry]

\* appendArgs that assigns the fragment instead of appending it
appendArgs_Overwriting(tb, index, input) ==
  LET p == BufPos(tb, index) IN
  IF p = 0 THEN tb ELSE [tb EXCEPT !.buffers[p].args = input]

appendArgs(tb, index, input) ==
  LET p == BufPos(tb, index) IN
  IF p = 0 THEN tb ELSE [tb EXCEPT !.buffers[p].args = @ \o input]

markHasText(tb) == [tb EXCEPT !.hasText = TRUE]

\* a separator test that does not look at firstTool
shouldAddSpaceBeforeFirstTool_EveryTool(tb) == tb.hasText

shouldAddSpaceBeforeFirstTool(tb) == tb.hasText /\ tb.firstTool

markFirstToolEmitted(tb) == [tb EXCEPT !.firstTool = FALSE]

\* `${buf.name}:${canonical}`
ToolCallKey(name, parameters) == name \o <<":">> \o JSONStringify(parameters)

\* this.buffers.delete(index); this.completedIndices.add(index)
completeIndex(tb, index) ==
  [BufDelete(tb, index) EXCEPT !.completedIndices = @ \cup {index}]

\* buf.id ?? `call_${random}`
callIdOf(buf, env) ==
  IF buf.id = Undefined THEN <<"c", "a", "l", "l", "_">> \o env.rnd ELSE buf.id

\* tryEmit after progress.report was called with the part: when the sink
\* raised, the key is recorded and the entry is still in the map
tryEmitReported(tb, index, env) ==
  IF env.threw THEN [tb |-> tb, env |-> env]
  ELSE [tb |-> completeIndex(tb, index), env |-> env]

\* tryEmit for arguments that parsed to the object parameters with dedup key key
tryEmitParsed(tb, index, buf, parameters, key, env) ==
  IF key \in tb.emittedToolCallKeys
  THEN [tb |-> completeIndex(tb, index),
        env |-> Log(env, [msg |-> "duplicate", index |-> index, key |-> key])]
  ELSE tryEmitReported([tb EXCEPT !.emittedToolCallKeys = @ \cup {key}], index,
                       Report(env, ToolCallPart(callIdOf(buf, env), buf.name, parameters, index)))

\* tryEmit from the result canParse of tryParseJSONObject(buf.args) on
tryEmitParse(tb, index, force, env, buf, canParse) ==
  IF canParse.ok
  THEN tryEmitParsed(tb, index, buf, canParse.value, ToolCallKey(buf.name, canParse.value), env)
  ELSE IF force
       THEN [tb |-> tb, env |-> Log(env, [msg |-> "invalid", index |-> index, key |-> <<>>])]
       ELSE [tb |-> tb, env |-> env]

\* tryEmit for the entry buf of index
tryEmitBuffer(tb, index, force, env, buf) ==
  IF buf.name = <<>> THEN [tb |-> tb, env |-> env]
  ELSE tryEmitParse(tb, index, force, env, buf, tryParseJSONObject(buf.args))

\* tryEmit without the completedIndices test of its first guard
tryEmit_IgnoringCompleted(tb, index, force, env) ==
  IF BufPos(tb, index) = 0 THEN [tb |-> tb, env |-> env]
  ELSE tryEmitBuffer(tb, index, force, env, tb.buffers[BufPos(tb, index)])

tryEmit(tb, index, force, env) ==
  IF BufPos(tb, index) = 0 \/ index \in tb.completedIndices THEN [tb |-> tb, env |-> env]
  ELSE tryEmitBuffer(tb, index, force, env, tb.buffers[BufPos(tb, index)])

RECURSIVE emitAllFrom(_, _, _)
RECURSIVE emitAllRest(_, _)
\* the loop of emitAll over the snapshot idxs of the map keys; a raising
\* sink ends it
emitAllFrom(tb, env, idxs) ==
  IF idxs = <<>> \/ env.threw THEN [tb |-> tb, env |-> env]
  ELSE emitAllRest(tryEmit(tb, Head(idxs), TRUE, env), Tail(idxs))

\* the rest of the loop of emitAll after one tryEmit returned r
emitAllRest(r, idxs) == emitAllFrom(r.tb, r.env, idxs)

emitAll(tb, env) ==
  emitAllFrom(tb, env, [i \in 1..Len(tb.buffers) |-> tb.buffers[i].index])

(***************************************************************************)
(* StreamProcessor.  A stream event is a record; a field the vendor event  *)
(* does not carry is the empty text (the code tests fields for truthiness, *)
(* which the empty string fails) and a missing contentBlockIndex is        *)
(* NoIndex.                                                                *)
(***************************************************************************)
NoIndex == -1

StartEvent(idx, hasToolUse, toolUseId, name) ==
  [type |-> "contentBlockStart", contentBlockIndex |-> idx, hasToolUse |-> hasToolUse,
   toolUseId |-> toolUseId, name |-> name, reasoning |-> <<>>, text |-> <<>>, input |-> <<>>]

DeltaEvent(idx, reasoning, text, input) ==
  [type |-> "contentBlockDelta", contentBlockIndex |-> idx, hasToolUse |-> FALSE,
   toolUseId |-> <<>>, name |-> <<>>, reasoning |-> reasoning, text |-> text, input |-> input]

StopEvent(idx) ==
  [type |-> "contentBlockStop", contentBlockIndex |-> idx, hasToolUse |-> FALSE,
   toolUseId |-> <<>>, name |-> <<>>, reasoning |-> <<>>, text |-> <<>>, input |-> <<>>]

MessageStopEvent ==
  [type |-> "messageStop", contentBlockIndex |-> NoIndex, hasToolUse |-> FALSE,
   toolUseId |-> <<>>, name |-> <<>>, reasoning |-> <<>>, text |-> <<>>, input |-> <<>>]

\* any other vendor event (messageStart, metadata)
OtherEvent ==
  [type |-> "metadata", contentBlockIndex |-> NoIndex, hasToolUse |-> FALSE,
   toolUseId |-> <<>>, name |-> <<>>, reasoning |-> <<>>, text |-> <<>>, input |-> <<>>]

\* event.<kind>.contentBlockIndex ?? 0
BlockIndex(event) ==
  IF event.contentBlockIndex = NoIndex THEN 0 ELSE event.contentBlockIndex

\* the processor after startToolCall and markFirstToolEmitted, unless the
\* report of the separator raised
toolCallStarted(sp, event, env) ==
  IF env.threw THEN [sp |-> sp, env |-> env]
  ELSE [sp |-> [sp EXCEPT !.toolBuffer =
                  markFirstToolEmitted(startToolCall(@, BlockIndex(event),
                                                     event.toolUseId, event.name))],
        env |-> env]

\* the contentBlockStart branch of processStream
onContentBlockStart(sp, event, env) ==
  IF ~event.hasToolUse THEN [sp |-> sp, env |-> env]
  ELSE toolCallStarted(sp, event,
                       IF shouldAddSpaceBeforeFirstTool(sp.toolBuffer)
                       THEN Report(env, TextPart(<<" ">>)) ELSE env)

\* the try block around the report of a Thinking part: a raising report is
\* caught and logged
thinkingReported(sp, event, env) ==
  IF env.threw
  THEN [sp |-> sp,
        env |-> Log([env EXCEPT !.threw = FALSE],
                    [msg |-> "thinking", index |-> BlockIndex(event), key |-> <<>>])]
  ELSE [sp |-> [sp EXCEPT !.hasEmittedThinking = TRUE], env |-> env]

\* a reasoning branch that keeps the text in thinkingBuffer and reports nothing
onReasoningDelta_Buffering(sp, event, env, thinkingPartAvailable) ==
  [sp |-> [sp EXCEPT !.thinkingBuffer = @ \o event.reasoning], env |-> env]

\* the reasoningContent part of the contentBlockDelta branch
onReasoningDelta(sp, event, env, thinkingPartAvailable) ==
  IF event.reasoning = <<>> THEN [sp |-> sp, env |-> env]
  ELSE IF ~thinkingPartAvailable
       THEN [sp |-> [sp EXCEPT !.thinkingBuffer = @ \o event.reasoning], env |-> env]
       ELSE thinkingReported([sp EXCEPT !.thinkingBuffer = @ \o event.reasoning], event,
                             Report(env, ThinkingPart(event.reasoning)))

\* markHasText after the report of a Text part, unless the report raised
textReported(sp, env) ==
  IF env.threw THEN [sp |-> sp, env |-> env]
  ELSE [sp |-> [sp EXCEPT !.toolBuffer = markHasText(@)], env |-> env]

\* the text part of the contentBlockDelta branch, r being the processor and
\* the sink so far
onTextDelta(r, event) ==
  IF event.text = <<>> THEN r
  ELSE textReported(r.sp, Report(r.env, TextPart(event.text)))

\* the processor sp with the result r of a call of its tool buffer
withToolBuffer(sp, r) == [sp |-> [sp EXCEPT !.toolBuffer = r.tb], env |-> r.env]

\* the toolUse.input part of the contentBlockDelta branch: appendArgs, tryEmit
onToolInputDelta(r, event) ==
  IF r.env.threw \/ event.input = <<>> THEN r
  ELSE withToolBuffer(r.sp,
                      tryEmit(appendArgs(r.sp.toolBuffer, BlockIndex(event), event.input),
                              BlockIndex(event), FALSE, r.env))

\* the contentBlockDelta branch of processStream
onContentBlockDelta(sp, event, env, thinkingPartAvailable) ==
  onToolInputDelta(onTextDelta(onReasoningDelta(sp, event, env, thinkingPartAvailable),
                               event),
                   event)

\* the body of the for-await loop of processStream for one event
processEvent(sp, event, env, thinkingPartAvailable) ==
  IF event.type = "contentBlockStart" THEN onContentBlockStart(sp, event, env)
  ELSE IF event.type = "contentBlockDelta"
       THEN onContentBlockDelta(sp, event, env, thinkingPartAvailable)
  ELSE IF event.type = "contentBlockStop"
       THEN withToolBuffer(sp, tryEmit(sp.toolBuffer, BlockIndex(event), TRUE, env))
  ELSE IF event.type = "messageStop"
       THEN withToolBuffer(sp, emitAll(sp.toolBuffer, env))
  ELSE [sp |-> sp, env |-> env]

\* the resets at the entry of processStream
processStreamEntry(sp) ==
  [toolBuffer |-> reset(sp.toolBuffer), thinkingBuffer |-> <<>>, hasEmittedThinking |-> FALSE]

\* a finally block that clears the thinking fields and leaves the tool buffer as it is
processStreamFinally_KeepingBuffer(sp) ==
  [toolBuffer |-> sp.toolBuffer, thinkingBuffer |-> <<>>, hasEmittedThinking |-> FALSE]

\* the finally block of processStream
processStreamFinally(sp) ==
  [toolBuffer |-> reset(sp.toolBuffer), thinkingBuffer |-> <<>>, hasEmittedThinking |-> FALSE]

(***************************************************************************)
(* The parts and messages of a chat request.  A part is tagged by the kind  *)
(* the code tells apart with instanceof and field tests.                   *)
(***************************************************************************)
\* vscode.LanguageModelToolCallPart(callId, name, input) of a request message
RequestToolCall(callId, name, input) == ToolCallPart(callId, name, input, NoIndex)

\* vscode.LanguageModelToolResultPart(callId, content)
ToolResultPart(callId, content) ==
  [kind |-> "ToolResult", callId |-> callId, content |-> content]

\* a data part { mimeType, data }
DataPart(mimeType, data) == [kind |-> "Data", mimeType |-> mimeType, data |-> data]

Message(role, content) == [role |-> role, content |-> content]

isToolResultPart(part) == part.kind = "ToolResult"

RECURSIVE resolves_SkippingOtherParts(_, _, _)
\* the while loop of validateRequest, passing over the parts of the following
\* messages that are no tool results
resolves_SkippingOtherParts(msgs, next, toolCallIds) ==
  IF toolCallIds = {} THEN TRUE
  ELSE IF next > Len(msgs) \/ msgs[next].role # "user" THEN FALSE
  ELSE resolves_SkippingOtherParts(msgs, next + 1,
         toolCallIds \ {msgs[next].content[j].callId :
                          j \in {k \in 1..Len(msgs[next].content) :
                                   isToolResultPart(msgs[next].content[k])}})

RECURSIVE resolves(_, _, _)
\* the while loop of validateRequest from message next on: TRUE when the
\* set of call ids empties, FALSE when the loop raises
resolves(msgs, next, toolCallIds) ==
  IF toolCallIds = {} THEN TRUE
  ELSE IF next > Len(msgs) \/ msgs[next].role # "user" THEN FALSE
  ELSE IF \E j \in 1..Len(msgs[next].content) : ~isToolResultPart(msgs[next].content[j])
       THEN FALSE
  ELSE resolves(msgs, next + 1,
                toolCallIds \ {msgs[next].content[j].callId : j \in 1..Len(msgs[next].content)})

\* the call ids of the ToolCall parts of a message
toolCallIdsOf(message) ==
  {message.content[j].callId :
     j \in {k \in 1..Len(message.content) : message.content[k].kind = "ToolCall"}}

\* validateRequest: "ok" when it returns, "raised" when it throws
validateRequest(msgs) ==
  IF msgs = <<>> THEN "raised"
  ELSE IF \A i \in 1..Len(msgs) :
            msgs[i].role = "assistant" => resolves(msgs, i + 1, toolCallIdsOf(msgs[i]))
       THEN "ok"
       ELSE "raised"

(***************************************************************************)
(* convertMessages.  A vendor block is a record with the one field that     *)
(* names its kind: text, image, toolUse or toolResult.                      *)
(***************************************************************************)
Upper ==
  <<"A", "B", "C", "D", "E", "F", "G", "H", "I", "J", "K", "L", "M",
    "N", "O", "P", "Q", "R", "S", "T", "U", "V", "W", "X", "Y", "Z">>

Lower ==
  <<"a", "b", "c", "d", "e", "f", "g", "h", "i", "j", "k", "l", "m",
    "n", "o", "p", "q", "r", "s", "t", "u", "v", "w", "x", "y", "z">>

\* String.toLowerCase on one character
ToLowerCase(c) ==
  IF \E i \in 1..26 : Upper[i] = c THEN Lower[CHOOSE i \in 1..26 : Upper[i] = c] ELSE c

\* position of the first "/" at or after j, 0 when there is none
RECURSIVE FindSlash(_, _)
FindSlash(s, j) ==
  IF j > Len(s) THEN 0 ELSE IF s[j] = "/" THEN j ELSE FindSlash(s, j + 1)

\* mimeType.split('/')[1]?.toLowerCase(), for a mimeType that starts with image/
ImageFormat(mimeType) ==
  LET rest == SubSeq(mimeType, 7, Len(mimeType))
      e == FindSlash(rest, 1)
      second == IF e = 0 THEN rest ELSE SubSeq(rest, 1, e - 1)
  IN [i \in 1..Len(second) |-> ToLowerCase(second[i])]

SupportedImageFormats ==
  { <<"p", "n", "g">>, <<"j", "p", "e", "g">>, <<"g", "i", "f">>, <<"w", "e", "b", "p">> }

\* the id the converter makes up for a tool call without call id
GeneratedToolUseId == <<"g", "e", "n">>

RECURSIVE collectToolResultText(_)
\* the text parts of the content of a tool result, concatenated
collectToolResultText(content) ==
  IF content = <<>> THEN <<>>
  ELSE (IF Head(content).kind = "Text" THEN Head(content).value ELSE <<>>)
       \o collectToolResultText(Tail(content))

\* content of a toolResult block in json format: parsed is JSON.parse(resultText)
jsonOrText(resultText, parsed) ==
  IF parsed.ok THEN <<[json |-> parsed.value]>> ELSE <<[text |-> resultText]>>

\* the content of a toolResult block for the result text
ToolResultContent(resultText, toolResultFormat) ==
  IF toolResultFormat = "json" THEN jsonOrText(resultText, JSONParse(resultText))
  ELSE <<[text |-> resultText]>>

NoParts ==
  [textParts |-> <<>>, imageBlocks |-> <<>>, toolCalls |-> <<>>, toolResults |-> <<>>,
   systemBlocks |-> <<>>]

\* one iteration of the loop over the parts of a message
collectPart(role, part, toolResultFormat, acc) ==
  IF part.kind = "Text"
  THEN IF role \in {"user", "assistant"}
       THEN [acc EXCEPT !.textParts = @ \o part.value]
       ELSE [acc EXCEPT !.systemBlocks = Append(@, [text |-> part.value])]
  ELSE IF part.kind = "Data"
  THEN IF Len(part.mimeType) >= 6
            /\ SubSeq(part.mimeType, 1, 6) = <<"i", "m", "a", "g", "e", "/">>
            /\ ImageFormat(part.mimeType) \in SupportedImageFormats
       THEN [acc EXCEPT !.imageBlocks =
               Append(@, [image |-> [format |-> ImageFormat(part.mimeType),
                                     source |-> [bytes |-> part.data]]])]
       ELSE acc
  ELSE IF part.kind = "ToolCall"
  THEN [acc EXCEPT !.toolCalls =
          Append(@, [toolUse |->
                       [toolUseId |-> IF part.callId = <<>> THEN GeneratedToolUseId
                                      ELSE part.callId,
                        name |-> part.name, input |-> part.input]])]
  ELSE IF isToolResultPart(part)
  THEN [acc EXCEPT !.toolResults =
          Append(@, [toolResult |->
                       [toolUseId |-> part.callId,
                        content |-> ToolResultContent(collectToolResultText(part.content),
                                                      toolResultFormat)]])]
  ELSE acc

RECURSIVE collectParts(_, _, _, _)
\* the loop over the parts of one message
collectParts(role, content, toolResultFormat, acc) ==
  IF content = <<>> THEN acc
  ELSE collectParts(role, Tail(content), toolResultFormat,
                    collectPart(role, Head(content), toolResultFormat, acc))

\* nextIsToolResultOnly for message i of msgs
nextIsToolResultOnly(msgs, i) ==
  /\ i + 1 <= Len(msgs)
  /\ msgs[i + 1].role = "user"
  /\ \A j \in 1..Len(msgs[i + 1].content) : isToolResultPart(msgs[i + 1].content[j])

\* text block (when there is text) followed by the image blocks
TextAndImages(text, imageBlocks) ==
  (IF text # <<>> THEN <<[text |-> text]>> ELSE <<>>) \o imageBlocks

\* the same with the toolUse blocks put before the text and the images
pushAssistantToolCall_CallsFirst(m, parts, st) ==
  IF parts.toolCalls # <<>> /\ m.role = "assistant"
  THEN [st EXCEPT !.bedrockMessages =
          Append(@, [role |-> "assistant",
                     content |-> parts.toolCalls
                                   \o TextAndImages(parts.textParts, parts.imageBlocks)])]
  ELSE st

\* an assistant message with tool calls becomes a vendor assistant message
pushAssistantToolCall(m, parts, st) ==
  IF parts.toolCalls # <<>> /\ m.role = "assistant"
  THEN [st EXCEPT !.bedrockMessages =
          Append(@, [role |-> "assistant",
                     content |-> TextAndImages(parts.textParts, parts.imageBlocks)
                                   \o parts.toolCalls])]
  ELSE st

\* the tool results of message i join the pending ones, which are flushed
\* into one vendor user message unless the next message is tool-result-only
pushToolResults(msgs, i, parts, st) ==
  IF parts.toolResults = <<>> THEN st
  ELSE IF ~nextIsToolResultOnly(msgs, i)
       THEN [st EXCEPT !.bedrockMessages =
                         Append(@, [role |-> "user",
                                    content |-> st.pendingToolResults \o parts.toolResults]),
                       !.pendingToolResults = <<>>]
       ELSE [st EXCEPT !.pendingToolResults = @ \o parts.toolResults]

\* a user or assistant message with text or images, and neither an emitted
\* tool call nor tool results, becomes a vendor message of its role
pushTextMessage(m, parts, st) ==
  IF /\ (parts.textParts # <<>> \/ parts.imageBlocks # <<>>)
     /\ ~(parts.toolCalls # <<>> /\ m.role = "assistant")
     /\ parts.toolResults = <<>>
     /\ m.role \in {"user", "assistant"}
  THEN [st EXCEPT !.bedrockMessages =
          Append(@, [role |-> m.role,
                     content |-> TextAndImages(parts.textParts, parts.imageBlocks)])]
  ELSE st

\* one iteration of the loop over the messages, parts being what the loop
\* over the parts of message i collected
convertMessage(msgs, i, parts, st) ==
  pushTextMessage(msgs[i], parts,
    pushToolResults(msgs, i, parts,
      pushAssistantToolCall(msgs[i], parts,
        [st EXCEPT !.systemBlocks = @ \o parts.systemBlocks])))

\* the flush of the pending tool results after the loop
flushPending(st) ==
  IF st.pendingToolResults # <<>>
  THEN [st EXCEPT !.bedrockMessages =
                    Append(@, [role |-> "user", content |-> st.pendingToolResults]),
                  !.pendingToolResults = <<>>]
  ELSE st

RECURSIVE convertFrom(_, _, _, _)
\* the loop of convertMessages from message i on; st holds bedrockMessages,
\* systemBlocks and pendingToolResults
convertFrom(msgs, i, toolResultFormat, st) ==
  IF i > Len(msgs) THEN flushPending(st)
  ELSE convertFrom(msgs, i + 1, toolResultFormat,
                   convertMessage(msgs, i,
                                  collectParts(msgs[i].role, msgs[i].content,
                                               toolResultFormat, NoParts),
                                  st))

\* the value convertMessages returns
convertResult(st) == [messages |-> st.bedrockMessages, system |-> st.systemBlocks]

convertMessages(msgs, toolResultFormat) ==
  convertResult(convertFrom(msgs, 1, toolResultFormat,
                            [bedrockMessages |-> <<>>, systemBlocks |-> <<>>,
                             pendingToolResults |-> <<>>]))

(***************************************************************************)
(* State.                                                                   *)
(***************************************************************************)
VARIABLES
  toolBuffer,            \* StreamProcessor.toolBuffer: the ToolCallBufferManager fields
  thinkingBuffer,        \* StreamProcessor.thinkingBuffer
  hasEmittedThinking,    \* StreamProcessor.hasEmittedThinking
  thinkingPartAvailable, \* whether the host exposes vscode.LanguageModelThinkingPart:
                         \* "unknown" until the first reasoning delta looks it up
  pc,                    \* position of the processStream call
  cancelled,             \* token.isCancellationRequested of the current call
  emitted,               \* parts handed to progress.report during the current call
  log,                   \* logger entries of the call in progress
  nEvents,               \* events whose handling has started, over all calls
  runs,                  \* processStream calls made on this instance
  prevCalls,             \* [name, input] of the ToolCall parts of the previous call
  blocks,                \* per index, the tool-use block started last in the call in progress
  parseable,             \* [name, args] of the buffers tryEmit parsed in that call
  dropped,               \* buffer entries still open when the last call ended
  split,                 \* the split-feeding harness around one ToolCallBufferManager
  messages,              \* the message list of a chat request
  validated,             \* outcome of validateRequest(messages)
  converted,             \* outcome of convertMessages(messages)
  cache,                 \* CacheService.cache of OpenRouterClient.metadataCache
  expiry,                \* CacheService.expiry
  now,                   \* Date.now()
  ticks,                 \* clock advances so far
  answer,                \* the last operation on the cache or the services, and its outcome
  schema,                \* a schema handed to sanitizeSchema, and what came back
  toolsCall,             \* a call of convertTools, and its outcome
  request,               \* a call of handleChatRequest: its arguments, position and outcome
  lastHandled,           \* the event processStream handled last, and what that reported
  inflight,              \* the requests in flight on one handler: stream, position, sink
  queries                \* the capability queries in flight on one client

procVars == <<toolBuffer, thinkingBuffer, hasEmittedThinking, thinkingPartAvailable>>
callVars == <<pc, cancelled, emitted, log, nEvents, runs, prevCalls>>
obsVars == <<blocks, parseable, dropped>>
streamVars == <<procVars, callVars, obsVars>>
convVars == <<messages, validated, converted>>
capVars == <<cache, expiry, now, ticks, answer>>
fnVars == <<schema, toolsCall, request>>
svcVars == <<capVars, fnVars>>
moreVars == <<lastHandled, inflight, queries>>
vars == <<streamVars, split, convVars, svcVars, moreVars>>

(***************************************************************************)
(* The event streams explored.                                              *)
(***************************************************************************)
Indices == {0, 1}

\* contentBlockIndex of the events: absent (the code then takes 0) or 1
EventIndices == {NoIndex, 1}

\* toolUseId and name of the tool-use block-starts; either may be missing
ToolUses ==
  { [toolUseId |-> <<"x">>, name |-> <<"f">>],
    [toolUseId |-> <<>>, name |-> <<"g">>],
    [toolUseId |-> <<"x">>, name |-> <<>>] }

RandomSuffixes == {<<"r">>}

\* report calls of one event that may raise (0: none does)
FailPoints == {0, 1}

\* fragments of tool-input text:
\*   {"a":1   }   space   {}   {"a":1,"b":2}   {"b":2,"a":1}   [{}]
Fragments ==
  { <<"{", "\"", "a", "\"", ":", "1">>,
    <<"}">>,
    <<" ">>,
    <<"{", "}">>,
    <<"{", "\"", "a", "\"", ":", "1", ",", "\"", "b", "\"", ":", "2", "}">>,
    <<"{", "\"", "b", "\"", ":", "2", ",", "\"", "a", "\"", ":", "1", "}">>,
    <<"[", "{", "}", "]">> }

\* the complete argument texts the streams spell out, fragment by fragment:
\*   {"a":1}  {"a":1 }  {"a":1,"b":2}  {"b":2,"a":1}  {}  {}space  space{}  [{}]
ArgumentTexts ==
  { <<"{", "\"", "a", "\"", ":", "1", "}">>,
    <<"{", "\"", "a", "\"", ":", "1", " ", "}">>,
    <<"{", "\"", "a", "\"", ":", "1", ",", "\"", "b", "\"", ":", "2", "}">>,
    <<"{", "\"", "b", "\"", ":", "2", ",", "\"", "a", "\"", ":", "1", "}">>,
    <<"{", "}">>,
    <<"{", "}", " ">>,
    <<" ", "{", "}">>,
    <<"[", "{", "}", "]">> }

ArgumentPrefixes == UNION {{SubSeq(t, 1, n) : n \in 0..Len(t)} : t \in ArgumentTexts}

StreamEvents ==
  {StartEvent(i, TRUE, u.toolUseId, u.name) : i \in EventIndices, u \in ToolUses}
  \cup {StartEvent(NoIndex, FALSE, <<>>, <<>>)}
  \cup {DeltaEvent(i, <<>>, <<>>, f) : i \in EventIndices, f \in Fragments}
  \cup {DeltaEvent(NoIndex, <<>>, <<"h">>, <<>>)}
  \cup {StopEvent(i) : i \in EventIndices}
  \cup {MessageStopEvent, OtherEvent}

NoBlock ==
  [started |-> FALSE, name |-> <<>>, text |-> <<>>, fresh |-> FALSE, done |-> FALSE,
   stopped |-> FALSE]

Processor ==
  [toolBuffer |-> toolBuffer, thinkingBuffer |-> thinkingBuffer,
   hasEmittedThinking |-> hasEmittedThinking]

SetProcessor(sp) ==
  /\ toolBuffer' = sp.toolBuffer
  /\ thinkingBuffer' = sp.thinkingBuffer
  /\ hasEmittedThinking' = sp.hasEmittedThinking

ToolCallsOf(parts) ==
  {[name |-> parts[i].name, input |-> parts[i].input] :
     i \in {j \in 1..Len(parts) : parts[j].kind = "ToolCall"}}

\* indices for which the event handler reported a ToolCall part or logged a duplicate
HandledIn(env) ==
  {env.out[i].index : i \in {j \in 1..Len(env.out) : env.out[j].kind = "ToolCall"}}
  \cup {e.index : e \in {d \in env.log : d.msg = "duplicate"}}

\* a tool-use block-start opens a block
BlocksOpened(tb, event, env) ==
  IF event.type = "contentBlockStart" /\ event.hasToolUse /\ ~env.threw
  THEN [blocks EXCEPT ![BlockIndex(event)] =
          [started |-> TRUE, name |-> event.name, text |-> <<>>,
           fresh |-> BlockIndex(event) \notin tb.completedIndices, done |-> FALSE,
           stopped |-> FALSE]]
  ELSE blocks

\* tool input is added to the text of the block of its index
BlocksFed(bs, event, env) ==
  IF /\ event.type = "contentBlockDelta" /\ event.input # <<>>
     /\ bs[BlockIndex(event)].started
     /\ (env.threw => \E i \in 1..Len(env.out) : env.out[i].kind = "ToolCall")
  THEN [bs EXCEPT ![BlockIndex(event)].text = @ \o event.input]
  ELSE bs

\* a reported ToolCall part or a logged duplicate marks the block done
BlocksHandled(bs, handled) ==
  [i \in Indices |-> IF i \in handled THEN [bs[i] EXCEPT !.done = TRUE] ELSE bs[i]]

\* a block-stop or the message-stop marks a started block stopped
BlocksStopped(bs, event, env) ==
  [i \in Indices |->
     IF /\ bs[i].started
        /\ ~env.threw
        /\ \/ event.type = "messageStop"
           \/ event.type = "contentBlockStop" /\ BlockIndex(event) = i
     THEN [bs[i] EXCEPT !.stopped = TRUE]
     ELSE bs[i]]

\* the blocks after the event was handled, tb being the tool buffer before it
BlocksAfter(tb, event, env) ==
  BlocksStopped(BlocksHandled(BlocksFed(BlocksOpened(tb, event, env), event, env),
                              HandledIn(env)),
                event, env)

\* the (name, argument text) pairs tryEmit has parsed so far in the call: a
\* tool-input delta reaches the parse when the index has an entry, is not
\* completed and the entry has a name
ParseableAfter(tb, event, env) ==
  LET idx == BlockIndex(event)
      p == BufPos(tb, idx)
  IN IF /\ event.type = "contentBlockDelta" /\ event.input # <<>>
        /\ p # 0 /\ idx \notin tb.completedIndices
        /\ (env.threw => \E i \in 1..Len(env.out) : env.out[i].kind = "ToolCall")
     THEN IF tb.buffers[p].name # <<>>
             /\ tryParseJSONObject(tb.buffers[p].args \o event.input).ok
          THEN parseable \cup {[name |-> tb.buffers[p].name,
                                args |-> tb.buffers[p].args \o event.input]}
          ELSE parseable
     ELSE parseable

(***************************************************************************)
(* processStream on one StreamProcessor instance, called sequentially.     *)
(***************************************************************************)
StreamInit ==
  /\ toolBuffer = InitToolBuffer
  /\ thinkingBuffer = <<>>
  /\ hasEmittedThinking = FALSE
  /\ thinkingPartAvailable = "unknown"
  /\ pc = "idle"
  /\ cancelled = FALSE
  /\ emitted = <<>>
  /\ log = {}
  /\ nEvents = 0
  /\ runs = 0
  /\ prevCalls = {}
  /\ blocks = [i \in Indices |-> NoBlock]
  /\ parseable = {}
  /\ dropped = 0

\* processStream is called: the resets before the loop
Call ==
  /\ pc \in {"idle", "returned", "raised"}
  /\ runs < MaxRuns
  /\ SetProcessor(processStreamEntry(Processor))
  /\ pc' = "loop"
  /\ cancelled' = FALSE
  /\ emitted' = <<>>
  /\ log' = {}
  /\ runs' = runs + 1
  /\ prevCalls' = ToolCallsOf(emitted)
  /\ blocks' = [i \in Indices |-> NoBlock]
  /\ parseable' = {}
  /\ dropped' = 0
  /\ UNCHANGED <<moreVars, thinkingPartAvailable, nEvents, split, convVars, svcVars>>

\* the caller requests cancellation
Cancel ==
  /\ pc = "loop"
  /\ ~cancelled
  /\ cancelled' = TRUE
  /\ UNCHANGED <<moreVars, procVars, pc, emitted, log, nEvents, runs, prevCalls, obsVars, split,
                 convVars, svcVars>>

\* the cancellation check at the head of the loop body never fires
CancellationSeen_Never == FALSE

\* token.isCancellationRequested, read at the head of the loop body
CancellationSeen == cancelled

\* the events the stream may yield next: the text of a block stays a prefix
\* of one of the argument texts
SpelledEvents ==
  {e \in StreamEvents :
     (e.input # <<>> /\ blocks[BlockIndex(e)].started)
       => (blocks[BlockIndex(e)].text \o e.input) \in ArgumentPrefixes}

\* the call ends: the observations of the call in progress are closed
CallEnded(sp) ==
  /\ log' = {}
  /\ blocks' = [i \in Indices |-> NoBlock]
  /\ parseable' = {}
  /\ dropped' = Len(sp.toolBuffer.buffers)

\* what the lookup of vscode.LanguageModelThinkingPart answers while the
\* event is handled: the host has it or not, and does not change its answer
HostAnswers(event) ==
  IF thinkingPartAvailable = "unknown" /\ event.reasoning # <<>> THEN {"yes", "no"}
  ELSE {thinkingPartAvailable}

\* the report calls of the event that may raise, r being the handling of the
\* event with a sink that does not raise
FailPointsOf(r) == {f \in FailPoints : f <= Len(r.env.out)}

\* the state after the loop body handled the event with outcome r: a raising
\* sink ends the call through the finally block
Handled(event, r, host) ==
  /\ thinkingPartAvailable' = host
  /\ emitted' = emitted \o r.env.out
  /\ IF r.env.threw
     THEN /\ SetProcessor(processStreamFinally(r.sp))
          /\ pc' = "raised"
          /\ CallEnded(r.sp)
     ELSE /\ SetProcessor(r.sp)
          /\ pc' = "loop"
          /\ log' = log \cup r.env.log
          /\ blocks' = BlocksAfter(toolBuffer, event, r.env)
          /\ parseable' = ParseableAfter(toolBuffer, event, r.env)
          /\ dropped' = dropped

\* the stream yields an event while no cancellation is requested
OnEvent ==
  /\ pc = "loop"
  /\ ~CancellationSeen
  /\ nEvents < MaxEvents
  /\ \E event \in SpelledEvents, rnd \in RandomSuffixes :
     \E host \in HostAnswers(event) :
     \E failAt \in FailPointsOf(processEvent(Processor, event, NewEnv(0, rnd), host = "yes")) :
       Handled(event, processEvent(Processor, event, NewEnv(failAt, rnd), host = "yes"), host)
  /\ nEvents' = nEvents + 1
  /\ UNCHANGED <<moreVars, cancelled, runs, prevCalls, split, convVars, svcVars>>

\* the stream yields an event after cancellation was requested: break, finally
OnEventCancelled ==
  /\ pc = "loop"
  /\ CancellationSeen
  /\ SetProcessor(processStreamFinally(Processor))
  /\ pc' = "returned"
  /\ CallEnded(Processor)
  /\ UNCHANGED <<moreVars, thinkingPartAvailable, cancelled, emitted, nEvents, runs, prevCalls,
                 split, convVars, svcVars>>

\* the stream ends: the loop exits, finally
StreamEnd ==
  /\ pc = "loop"
  /\ SetProcessor(processStreamFinally(Processor))
  /\ pc' = "returned"
  /\ CallEnded(Processor)
  /\ UNCHANGED <<moreVars, thinkingPartAvailable, cancelled, emitted, nEvents, runs, prevCalls,
                 split, convVars, svcVars>>

\* the stream raises: finally, and the error propagates
StreamThrows ==
  /\ pc = "loop"
  /\ SetProcessor(processStreamFinally(Processor))
  /\ pc' = "raised"
  /\ CallEnded(Processor)
  /\ UNCHANGED <<moreVars, thinkingPartAvailable, cancelled, emitted, nEvents, runs, prevCalls,
                 split, convVars, svcVars>>

\* the split-feeding harness is not in use
NoSplit ==
  [phase |-> "unused", obj |-> [t |-> "obj", v |-> <<>>], doc |-> <<>>, index |-> 0,
   name |-> <<>>, fed |-> 0, cuts |-> 0]

\* convertMessages has not been called
NotConverted == [done |-> FALSE, messages |-> <<>>, system |-> <<>>]

\* no operation on the cache or the services has been made
NoAnswer == [op |-> "none"]

\* the metadata cache of a new OpenRouterClient, at time 0
NewCache ==
  /\ cache = <<>>
  /\ expiry = 0
  /\ now = 0
  /\ ticks = 0
  /\ answer = NoAnswer

\* sanitizeSchema has not been given a schema
NoSchema == [phase |-> "unused"]

\* convertTools has not been called
NoToolsCall == [phase |-> "unused"]

\* handleChatRequest has not been called
NoRequest == [pc |-> "unused"]

\* no event has been handled
NoHandled == [event |-> OtherEvent, out |-> <<>>, threw |-> FALSE, host |-> "unknown"]

\* nothing is in flight: no second request on the handler, no overlapping query
IdleMore ==
  /\ lastHandled = NoHandled
  /\ inflight = <<>>
  /\ queries = <<>>

IdleFunctions ==
  /\ schema = NoSchema
  /\ toolsCall = NoToolsCall
  /\ request = NoRequest

IdleServices == NewCache /\ IdleFunctions

IdleRest ==
  /\ IdleMore
  /\ split = NoSplit
  /\ messages = <<>>
  /\ validated = "none"
  /\ converted = NotConverted
  /\ IdleServices

Init == StreamInit /\ IdleRest

Next == Call \/ Cancel \/ OnEvent \/ OnEventCancelled \/ StreamEnd \/ StreamThrows

Spec == Init /\ [][Next]_vars

(***************************************************************************)
(* One ToolCallBufferManager fed the serialisation of an object in          *)
(* fragments, each by appendArgs followed by tryEmit.                       *)
(***************************************************************************)
JNum(n) == [t |-> "num", v |-> <<n>>]

JStr(chars) == [t |-> "str", v |-> chars]

JArr(elems) == [t |-> "arr", v |-> elems]

JObj(props) == [t |-> "obj", v |-> props]

Prop(k, v) == [k |-> k, v |-> v]

\* the objects whose serialisation is fed:
\*   {}  {"a":1}  {"a":1,"b":2}  {"b":2,"a":1}  {"a":{"b":"}"}}  {"a":[1,{}]}
\*   {"1":0,"a":10}  {"":""}  {"a":"{}"}
ArgumentObjects ==
  { JObj(<<>>),
    JObj(<<Prop(<<"a">>, JNum(1))>>),
    JObj(<<Prop(<<"a">>, JNum(1)), Prop(<<"b">>, JNum(2))>>),
    JObj(<<Prop(<<"b">>, JNum(2)), Prop(<<"a">>, JNum(1))>>),
    JObj(<<Prop(<<"a">>, JObj(<<Prop(<<"b">>, JStr(<<"}">>))>>))>>),
    JObj(<<Prop(<<"a">>, JArr(<<JNum(1), JObj(<<>>)>>))>>),
    JObj(<<Prop(<<"1">>, JNum(0)), Prop(<<"a">>, JNum(10))>>),
    JObj(<<Prop(<<>>, JStr(<<>>))>>),
    JObj(<<Prop(<<"a">>, JStr(<<"{", "}">>))>>) }

SplitInit ==
  /\ StreamInit
  /\ IdleMore
  /\ split = [NoSplit EXCEPT !.phase = "fresh"]
  /\ messages = <<>>
  /\ validated = "none"
  /\ converted = NotConverted
  /\ IdleServices

\* startToolCall on the fresh manager
SplitStart ==
  /\ split.phase = "fresh"
  /\ \E obj \in ArgumentObjects, index \in Indices, u \in ToolUses :
       /\ toolBuffer' = startToolCall(toolBuffer, index, u.toolUseId, u.name)
       /\ split' = [phase |-> "open", obj |-> obj, doc |-> JSONStringify(obj),
                    index |-> index, name |-> u.name, fed |-> 0, cuts |-> 0]
  /\ UNCHANGED <<moreVars, thinkingBuffer, hasEmittedThinking, thinkingPartAvailable, callVars,
                 obsVars, convVars, svcVars>>

\* the harness after tryEmit returned r for a fragment of n characters
SplitFed(r, n) ==
  /\ toolBuffer' = r.tb
  /\ emitted' = emitted \o r.env.out
  /\ log' = log \cup r.env.log
  /\ split' = [split EXCEPT !.fed = @ + n, !.cuts = @ + 1]

\* the next fragment, of any non-empty length: appendArgs, then tryEmit
SplitFeed ==
  /\ split.phase = "open"
  /\ split.fed < Len(split.doc)
  /\ \E n \in 1..(Len(split.doc) - split.fed), rnd \in RandomSuffixes :
       SplitFed(tryEmit(appendArgs(toolBuffer, split.index,
                                   SubSeq(split.doc, split.fed + 1, split.fed + n)),
                        split.index, FALSE, NewEnv(0, rnd)),
                n)
  /\ UNCHANGED <<moreVars, thinkingBuffer, hasEmittedThinking, thinkingPartAvailable, pc, cancelled,
                 nEvents, runs, prevCalls, obsVars, convVars, svcVars>>

SplitNext == SplitStart \/ SplitFeed

SpecSplit == SplitInit /\ [][SplitNext]_vars

(***************************************************************************)
(* handleChatRequest up to the request checks: the message list is         *)
(* converted, then validated.                                               *)
(***************************************************************************)
CallA == RequestToolCall(<<"a">>, <<"f">>, JObj(<<>>))

CallB == RequestToolCall(<<"b">>, <<"g">>, JObj(<<>>))

ResultA == ToolResultPart(<<"a">>, <<TextPart(<<"{", "}">>)>>)

ResultB == ToolResultPart(<<"b">>, <<TextPart(<<"1">>)>>)

\* the messages a request is made of
RequestMessages ==
  { Message("assistant", <<CallA>>),
    Message("assistant", <<CallA, CallB>>),
    Message("assistant", <<TextPart(<<"h">>)>>),
    Message("user", <<ResultA>>),
    Message("user", <<ResultB>>),
    Message("user", <<ResultA, TextPart(<<"h">>)>>),
    Message("user", <<TextPart(<<"h">>)>>),
    Message("user", <<DataPart(<<"i", "m", "a", "g", "e", "/", "P", "N", "G">>, <<"d">>)>>),
    Message("user", <<>>),
    Message("system", <<TextPart(<<"s">>)>>) }

\* profile.toolResultFormat of the model of the request
ToolResultFormats == {"text", "json"}

\* the caller builds the message list of the request
AddMessage ==
  /\ ~converted.done
  /\ Len(messages) < MaxMsgs
  /\ \E m \in RequestMessages : messages' = Append(messages, m)
  /\ UNCHANGED <<moreVars, streamVars, split, svcVars, validated, converted>>

\* the outcome r of convertMessages, kept for the rest of the request
Converted(r) == [done |-> TRUE, messages |-> r.messages, system |-> r.system]

\* handleChatRequest converts the messages
Convert ==
  /\ ~converted.done
  /\ \E toolResultFormat \in ToolResultFormats :
       converted' = Converted(convertMessages(messages, toolResultFormat))
  /\ UNCHANGED <<moreVars, streamVars, split, svcVars, messages, validated>>

\* handleChatRequest validates the request after the conversion
Validate ==
  /\ converted.done
  /\ validated = "none"
  /\ validated' = validateRequest(messages)
  /\ UNCHANGED <<moreVars, streamVars, split, svcVars, messages, converted>>

ConvNext == AddMessage \/ Convert \/ Validate

SpecConv == Init /\ [][ConvNext]_vars

(***************************************************************************)
(* The same, for messages that mix text, images, tool calls and tool        *)
(* results in one message.                                                  *)
(***************************************************************************)
MaxMixed == 3

ImagePng == DataPart(<<"i", "m", "a", "g", "e", "/", "P", "N", "G">>, <<"d">>)

ImageJpeg == DataPart(<<"i", "m", "a", "g", "e", "/", "j", "p", "e", "g">>, <<"e">>)

\* the messages a request is made of
MixedMessages ==
  { Message("assistant", <<CallA, TextPart(<<"h">>), ImagePng, TextPart(<<"k">>), CallB>>),
    Message("assistant", <<ImagePng, TextPart(<<"h">>)>>),
    Message("user", <<ImageJpeg, TextPart(<<"h">>), TextPart(<<"k">>)>>),
    Message("user", <<ResultA, TextPart(<<"h">>)>>),
    Message("user", <<ResultA>>),
    Message("user", <<>>),
    Message("system", <<TextPart(<<"s">>)>>) }

\* the caller builds the message list of the request
AddMixed ==
  /\ ~converted.done
  /\ Len(messages) < MaxMixed
  /\ \E m \in MixedMessages : messages' = Append(messages, m)
  /\ UNCHANGED <<moreVars, streamVars, split, svcVars, validated, converted>>

MixedNext == AddMixed \/ Convert \/ Validate

SpecMixed == Init /\ [][MixedNext]_vars

(***************************************************************************)
(* CacheService, and the capability services built on it (OpenRouterClient *)
(* and ModelService).  A Map is the sequence of its [key, value] entries in *)
(* insertion order, a CacheService object the record [cache, expiry], an    *)
(* optional number <<>> or <<n>>.                                           *)
(***************************************************************************)
\* clock advances explored
MaxTicks == 2

\* OpenRouterClient.CACHE_TTL, in milliseconds
CACHE_TTL == 24 * 60 * 60 * 1000

DEFAULT_MAX_OUTPUT_TOKENS == 4096

DEFAULT_CONTEXT_LENGTH == 200000

\* position of key in the map, 0 when the map has no such key
MapPos(m, key) ==
  IF \E i \in 1..Len(m) : m[i].key = key
  THEN CHOOSE i \in 1..Len(m) : m[i].key = key
  ELSE 0

\* Map.set
MapSet(m, key, value) ==
  IF MapPos(m, key) = 0 THEN Append(m, [key |-> key, value |-> value])
  ELSE [m EXCEPT ![MapPos(m, key)].value = value]

\* the for-of loop of setAll over the entries
RECURSIVE MapSetAll(_, _)
MapSetAll(m, entries) ==
  IF entries = <<>> THEN m
  ELSE MapSetAll(MapSet(m, Head(entries).key, Head(entries).value), Tail(entries))

\* isValid that still holds at the instant of the expiry
isValid_AtExpiry(svc, t) == Len(svc.cache) > 0 /\ t <= svc.expiry

\* CacheService.isValid, t being Date.now()
isValid(svc, t) == Len(svc.cache) > 0 /\ t < svc.expiry

\* CacheService.get: [found |-> FALSE] is undefined
get(svc, key, t) ==
  IF ~isValid(svc, t) \/ MapPos(svc.cache, key) = 0 THEN [found |-> FALSE]
  ELSE [found |-> TRUE, value |-> svc.cache[MapPos(svc.cache, key)].value]

\* CacheService.getAll
getAll(svc, t) == IF ~isValid(svc, t) THEN <<>> ELSE svc.cache

\* the expiry after set stored an entry: reset when the entry is the only one
expiryAfterSet(svc, m, t, ttl) == IF Len(m) = 1 THEN t + ttl ELSE svc.expiry

\* CacheService.set
set(svc, key, value, t, ttl) ==
  [cache |-> MapSet(svc.cache, key, value),
   expiry |-> expiryAfterSet(svc, MapSet(svc.cache, key, value), t, ttl)]

\* setAll that stores the entries without clearing the map first
setAll_Merging(svc, entries, t, ttl) ==
  [cache |-> MapSetAll(svc.cache, entries), expiry |-> t + ttl]

\* CacheService.setAll
setAll(svc, entries, t, ttl) ==
  [cache |-> MapSetAll(<<>>, entries), expiry |-> t + ttl]

\* CacheService.clear
clear(svc) == [cache |-> <<>>, expiry |-> 0]

\* CacheService.size
size(svc, t) == IF isValid(svc, t) THEN Len(svc.cache) ELSE 0

(***************************************************************************)
(* OpenRouterClient.  A catalog record is                                   *)
(*   [id, context_length, max_completion_tokens, supported_parameters]     *)
(* with id a text or Undefined, and supported_parameters                    *)
(* [t |-> "absent"], [t |-> "list", v |-> set of words] or, for a record    *)
(* that is not as documented, [t |-> "num"].                                *)
(***************************************************************************)
\* model.id.includes('/') ? model.id.split('/')[1] : model.id
BaseModelId(id) ==
  IF FindSlash(id, 1) = 0 THEN id
  ELSE IF FindSlash(id, FindSlash(id, 1) + 1) = 0
       THEN SubSeq(id, FindSlash(id, 1) + 1, Len(id))
       ELSE SubSeq(id, FindSlash(id, 1) + 1, FindSlash(id, FindSlash(id, 1) + 1) - 1)

\* the loop of fetchMetadata over data.data: reading the id of a record
\* without id raises
RECURSIVE CatalogEntries(_, _)
CatalogEntries(data, entries) ==
  IF data = <<>> THEN [ok |-> TRUE, entries |-> entries]
  ELSE IF Head(data).id = Undefined THEN [ok |-> FALSE, entries |-> entries]
  ELSE CatalogEntries(Tail(data), MapSet(entries, BaseModelId(Head(data).id), Head(data)))

\* a try block that stores the catalog only while the cache is still invalid
fetchedCatalog_KeepingFirst(svc, t, entries) ==
  IF entries.ok
  THEN [svc |-> IF isValid(svc, t) THEN svc ELSE setAll(svc, entries.entries, t, CACHE_TTL),
        fetched |-> "ok", raised |-> FALSE]
  ELSE [svc |-> svc, fetched |-> "failed", raised |-> FALSE]

\* the try block of fetchMetadata for a response with a JSON body
fetchedCatalog(svc, t, entries) ==
  IF entries.ok
  THEN [svc |-> setAll(svc, entries.entries, t, CACHE_TTL), fetched |-> "ok", raised |-> FALSE]
  ELSE [svc |-> svc, fetched |-> "failed", raised |-> FALSE]

\* fetchMetadata whose catch block throws the error on
fetchMetadata_Rethrowing(svc, t, response) ==
  IF isValid(svc, t) THEN [svc |-> svc, fetched |-> "skipped", raised |-> FALSE]
  ELSE IF response.kind # "json" THEN [svc |-> svc, fetched |-> "failed", raised |-> TRUE]
  ELSE fetchedCatalog(svc, t, CatalogEntries(response.data, <<>>))

\* OpenRouterClient.fetchMetadata, response being what fetch answers: a
\* network error, a status that is not ok, or a JSON body
fetchMetadata(svc, t, response) ==
  IF isValid(svc, t) THEN [svc |-> svc, fetched |-> "skipped", raised |-> FALSE]
  ELSE IF response.kind # "json" THEN [svc |-> svc, fetched |-> "failed", raised |-> FALSE]
  ELSE fetchedCatalog(svc, t, CatalogEntries(response.data, <<>>))

\* String.toLowerCase
LowerCased(s) == [i \in 1..Len(s) |-> ToLowerCase(s[i])]

\* String.replace(/\./g, '-')
DotsToDashes(s) == [i \in 1..Len(s) |-> IF s[i] = "." THEN "-" ELSE s[i]]

\* the alternatives of the region prefix pattern
RegionPrefixes ==
  { <<"u", "s">>, <<"e", "u">>, <<"a", "p">>, <<"a", "p", "a", "c">>,
    <<"g", "l", "o", "b", "a", "l">> }

\* the pattern /^(us|eu|ap|apac|global)\./i matches s with alternative p
HasRegionPrefix(s, p) ==
  Len(s) > Len(p) /\ LowerCased(SubSeq(s, 1, Len(p))) = p /\ s[Len(p) + 1] = "."

\* String.replace(/^(us|eu|ap|apac|global)\./i, '')
StripRegionPrefix(s) ==
  IF \E p \in RegionPrefixes : HasRegionPrefix(s, p)
  THEN SubSeq(s, Len(CHOOSE p \in RegionPrefixes : HasRegionPrefix(s, p)) + 2, Len(s))
  ELSE s

\* OpenRouterClient.normalizeModelId
normalizeModelId(modelId) == DotsToDashes(LowerCased(StripRegionPrefix(modelId)))

\* String.includes
Includes(a, b) == \E i \in 0..(Len(a) - Len(b)) : SubSeq(a, i + 1, i + Len(b)) = b

\* a test that asks only whether the cached id contains the queried one
MatchesCachedId_OneWay(cachedId, normalizedModelId) ==
  Includes(DotsToDashes(LowerCased(cachedId)), normalizedModelId)

\* the test of findMetadata on one cached id
MatchesCachedId(cachedId, normalizedModelId) ==
  \/ Includes(DotsToDashes(LowerCased(cachedId)), normalizedModelId)
  \/ Includes(normalizedModelId, DotsToDashes(LowerCased(cachedId)))

\* the loop of findMetadata over the entries from position i on
RECURSIVE FirstMatch(_, _, _)
FirstMatch(allMetadata, normalizedModelId, i) ==
  IF i > Len(allMetadata) THEN [found |-> FALSE]
  ELSE IF MatchesCachedId(allMetadata[i].key, normalizedModelId)
       THEN [found |-> TRUE, value |-> allMetadata[i].value]
       ELSE FirstMatch(allMetadata, normalizedModelId, i + 1)

\* OpenRouterClient.findMetadata
findMetadata(svc, bedrockModelId, t) ==
  FirstMatch(getAll(svc, t), normalizeModelId(bedrockModelId), 1)

\* supportsThinking after findMetadata answered metadata: the includes call
\* on supported_parameters raises when the field is no array
thinkingOf(metadata) ==
  IF ~metadata.found THEN [result |-> FALSE, raised |-> FALSE]
  ELSE IF metadata.value.supported_parameters.t = "num"
       THEN [result |-> FALSE, raised |-> TRUE]
  ELSE IF metadata.value.supported_parameters.t = "absent"
       THEN [result |-> FALSE, raised |-> FALSE]
  ELSE [result |-> \/ "reasoning" \in metadata.value.supported_parameters.v
                   \/ "include_reasoning" \in metadata.value.supported_parameters.v,
        raised |-> FALSE]

\* the outcome of a query: the cache after the fetch f, and the answer a
Queried(f, a) ==
  [svc |-> f.svc, fetched |-> f.fetched, raised |-> f.raised \/ a.raised, result |-> a.result]

\* no answer, for a fetch that raised
NoResult == [result |-> FALSE, raised |-> FALSE]

\* supportsThinking after fetchMetadata returned f
supportsThinkingFetched(f, modelId, t) ==
  Queried(f, IF f.raised THEN NoResult ELSE thinkingOf(findMetadata(f.svc, modelId, t)))

\* OpenRouterClient.supportsThinking
supportsThinking(svc, modelId, t, response) ==
  supportsThinkingFetched(fetchMetadata(svc, t, response), modelId, t)

\* getModelProperties after findMetadata answered metadata:
\* [found |-> FALSE] is undefined
propertiesOf(metadata) ==
  IF ~metadata.found THEN [result |-> [found |-> FALSE], raised |-> FALSE]
  ELSE [result |-> [found |-> TRUE,
                    contextLength |-> metadata.value.context_length,
                    maxOutputTokens |-> metadata.value.max_completion_tokens],
        raised |-> FALSE]

\* getModelProperties after fetchMetadata returned f
getModelPropertiesFetched(f, modelId, t) ==
  Queried(f, IF f.raised THEN [result |-> [found |-> FALSE], raised |-> FALSE]
             ELSE propertiesOf(findMetadata(f.svc, modelId, t)))

\* OpenRouterClient.getModelProperties
getModelProperties(svc, modelId, t, response) ==
  getModelPropertiesFetched(fetchMetadata(svc, t, response), modelId, t)

(***************************************************************************)
(* ModelService.                                                            *)
(***************************************************************************)
\* ModelService.supportsThinking; thinkingConfig tells whether
\* getThinkingConfig() returned a configuration
ModelService_supportsThinking(svc, modelId, t, response, thinkingConfig) ==
  IF ~thinkingConfig
  THEN [svc |-> svc, fetched |-> "skipped", raised |-> FALSE, result |-> FALSE]
  ELSE supportsThinking(svc, modelId, t, response)

\* properties?.contextLength ?? DEFAULT_CONTEXT_LENGTH
maxInputOf(properties) ==
  IF properties.found /\ properties.contextLength # <<>> THEN properties.contextLength[1]
  ELSE DEFAULT_CONTEXT_LENGTH

\* properties?.maxOutputTokens ?? DEFAULT_MAX_OUTPUT_TOKENS
maxOutputOf(properties) ==
  IF properties.found /\ properties.maxOutputTokens # <<>> THEN properties.maxOutputTokens[1]
  ELSE DEFAULT_MAX_OUTPUT_TOKENS

\* region.split("-")[0] of the configured region
RegionPrefix == <<"u", "s">>

\* the id the listing uses for the model m
modelIdToUse(m, availableProfileIds) ==
  IF (RegionPrefix \o <<".">> \o m.modelId) \in availableProfileIds
  THEN RegionPrefix \o <<".">> \o m.modelId
  ELSE m.modelId

\* the LanguageModelChatInformation of a listed model
modelInfo(id, properties) ==
  [id |-> id, maxInputTokens |-> maxInputOf(properties),
   maxOutputTokens |-> maxOutputOf(properties)]

\* the listing so far: the cache, the infos, the fetches that failed, and
\* whether a call raised
Listing(svc, infos, failed, raised) ==
  [svc |-> svc, infos |-> infos, failed |-> failed, raised |-> raised]

RECURSIVE listModels(_, _, _, _, _)
RECURSIVE listedModel(_, _, _, _, _, _)
\* the loop of getLanguageModelChatInformation over the models; responses
\* holds what fetch answers to each model of the list, should it be called
listModels(l, models, availableProfileIds, t, responses) ==
  IF models = <<>> \/ l.raised THEN l
  ELSE IF ~Head(models).responseStreamingSupported \/ ~Head(models).text
       THEN listModels(l, Tail(models), availableProfileIds, t, Tail(responses))
  ELSE listedModel(l, models, availableProfileIds, t, responses,
                   getModelProperties(l.svc, modelIdToUse(Head(models), availableProfileIds),
                                      t, Head(responses)))

\* the loop after getModelProperties returned q for the first of models
listedModel(l, models, availableProfileIds, t, responses, q) ==
  listModels(Listing(q.svc,
                     IF q.raised THEN l.infos
                     ELSE Append(l.infos,
                                 modelInfo(modelIdToUse(Head(models), availableProfileIds),
                                           q.result)),
                     l.failed + (IF q.fetched = "failed" THEN 1 ELSE 0),
                     q.raised),
             Tail(models), availableProfileIds, t, Tail(responses))

\* ModelService.getLanguageModelChatInformation: without credentials, or
\* when the vendor's model listing fails, the list is empty
getLanguageModelChatInformation(svc, authConfig, bedrock, t, responses) ==
  IF ~authConfig \/ ~bedrock.ok THEN Listing(svc, <<>>, 0, FALSE)
  ELSE listModels(Listing(svc, <<>>, 0, FALSE), bedrock.models, bedrock.availableProfileIds,
                  t, responses)

(***************************************************************************)
(* The cache and the services, operated in any order while the clock        *)
(* advances.                                                                *)
(***************************************************************************)
Absent == [t |-> "absent"]

Words(ws) == [t |-> "list", v |-> ws]

CatalogModel(id, contextLength, maxCompletion, params) ==
  [id |-> id, context_length |-> contextLength, max_completion_tokens |-> maxCompletion,
   supported_parameters |-> params]

\* anthropic-style id with a provider prefix, reasoning-capable
ModelC3 ==
  CatalogModel(<<"a", "/", "c", ".", "3">>, <<1000>>, <<64>>, Words({"tools", "reasoning"}))

\* the same id under include_reasoning, without limits
ModelC3Legacy ==
  CatalogModel(<<"a", "/", "c", ".", "3">>, <<>>, <<>>, Words({"include_reasoning"}))

\* an id without provider prefix, no reasoning
ModelM1 == CatalogModel(<<"M", "-", "1">>, <<500>>, <<>>, Absent)

\* a record without id
ModelNoId == CatalogModel(Undefined, <<>>, <<>>, Absent)

\* a record whose supported_parameters is no array
ModelOdd == CatalogModel(<<"q">>, <<>>, <<8>>, [t |-> "num"])

CatalogModels == {ModelC3, ModelC3Legacy, ModelM1, ModelOdd}

\* what fetch may answer
Responses ==
  { [kind |-> "error", data |-> <<>>],
    [kind |-> "status", data |-> <<>>],
    [kind |-> "json", data |-> <<>>],
    [kind |-> "json", data |-> <<ModelM1, ModelC3>>],
    [kind |-> "json", data |-> <<ModelC3, ModelNoId>>],
    [kind |-> "json", data |-> <<ModelOdd, ModelC3Legacy>>] }

\* what fetch may answer while the models are listed
ListingResponses ==
  { [kind |-> "error", data |-> <<>>],
    [kind |-> "json", data |-> <<>>],
    [kind |-> "json", data |-> <<ModelM1, ModelC3>>] }

\* the model ids queried:  us.c.3-v   apac.m-1   x   q
ModelIds ==
  { <<"u", "s", ".", "c", ".", "3", "-", "v">>,
    <<"a", "p", "a", "c", ".", "m", "-", "1">>,
    <<"x">>,
    <<"q">> }

\* the keys of the entries stored directly
CacheKeys == {<<"c", ".", "3">>, <<"M", "-", "1">>}

\* the maps handed to setAll directly
EntryMaps ==
  { <<>>,
    <<[key |-> <<"c", ".", "3">>, value |-> ModelC3]>>,
    <<[key |-> <<"M", "-", "1">>, value |-> ModelM1],
      [key |-> <<"c", ".", "3">>, value |-> ModelC3Legacy]>> }

BedrockModel(modelId, streaming, text) ==
  [modelId |-> modelId, responseStreamingSupported |-> streaming, text |-> text]

\* what fetchModels and fetchInferenceProfiles answer
BedrockListings ==
  { [ok |-> FALSE, models |-> <<>>, availableProfileIds |-> {}],
    [ok |-> TRUE,
     models |-> <<BedrockModel(<<"c", ".", "3">>, TRUE, TRUE),
                  BedrockModel(<<"x">>, TRUE, TRUE)>>,
     availableProfileIds |-> {<<"u", "s", ".", "c", ".", "3">>}],
    [ok |-> TRUE,
     models |-> <<BedrockModel(<<"e">>, FALSE, TRUE), BedrockModel(<<"m", "-", "1">>, TRUE, TRUE)>>,
     availableProfileIds |-> {}] }

\* the CacheService object of the client
Cache == [cache |-> cache, expiry |-> expiry]

SetCache(svc) ==
  /\ cache' = svc.cache
  /\ expiry' = svc.expiry

IdleOthers ==
  /\ StreamInit
  /\ IdleMore
  /\ split = NoSplit
  /\ messages = <<>>
  /\ validated = "none"
  /\ converted = NotConverted

CapInit == IdleOthers /\ NewCache /\ IdleFunctions

\* CacheService.set
CacheSet ==
  /\ \E key \in CacheKeys, value \in CatalogModels :
       /\ SetCache(set(Cache, key, value, now, CACHE_TTL))
       /\ answer' = [op |-> "set", key |-> key, at |-> now]
  /\ UNCHANGED <<moreVars, streamVars, split, convVars, fnVars, now, ticks>>

\* CacheService.setAll
CacheSetAll ==
  /\ \E entries \in EntryMaps :
       /\ SetCache(setAll(Cache, entries, now, CACHE_TTL))
       /\ answer' = [op |-> "setAll", entries |-> entries, at |-> now]
  /\ UNCHANGED <<moreVars, streamVars, split, convVars, fnVars, now, ticks>>

\* OpenRouterClient.clearCache: CacheService.clear
CacheClear ==
  /\ SetCache(clear(Cache))
  /\ answer' = [op |-> "clear", at |-> now]
  /\ UNCHANGED <<moreVars, streamVars, split, convVars, fnVars, now, ticks>>

\* time passes: a millisecond, or a millisecond less than the TTL
Tick ==
  /\ ticks < MaxTicks
  /\ \E d \in {1, CACHE_TTL - 1} : now' = now + d
  /\ ticks' = ticks + 1
  /\ UNCHANGED <<moreVars, streamVars, split, convVars, fnVars, cache, expiry, answer>>

\* the answer to a query q about modelId: the entries findMetadata sees
Answer(op, modelId, q) ==
  [op |-> op, modelId |-> modelId, at |-> now, fetched |-> q.fetched, raised |-> q.raised,
   result |-> q.result, entries |-> getAll(q.svc, now)]

\* ModelService.supportsThinking is asked about a model
SupportsThinking ==
  /\ \E modelId \in ModelIds, response \in Responses, thinkingConfig \in BOOLEAN :
       /\ SetCache(ModelService_supportsThinking(Cache, modelId, now, response,
                                                 thinkingConfig).svc)
       /\ answer' = [Answer("supportsThinking", modelId,
                            ModelService_supportsThinking(Cache, modelId, now, response,
                                                          thinkingConfig))
                       EXCEPT !.op = IF thinkingConfig THEN @ ELSE "thinkingOff"]
  /\ UNCHANGED <<moreVars, streamVars, split, convVars, fnVars, now, ticks>>

\* OpenRouterClient.getModelProperties is asked about a model
GetModelProperties ==
  /\ \E modelId \in ModelIds, response \in Responses :
       /\ SetCache(getModelProperties(Cache, modelId, now, response).svc)
       /\ answer' = Answer("getModelProperties", modelId,
                           getModelProperties(Cache, modelId, now, response))
  /\ UNCHANGED <<moreVars, streamVars, split, convVars, fnVars, now, ticks>>

\* the answer of a listing l of the models of bedrock
Listed(authConfig, bedrock, l) ==
  [op |-> "list", at |-> now, authConfig |-> authConfig, bedrock |-> bedrock,
   infos |-> l.infos, failed |-> l.failed, raised |-> l.raised,
   entries |-> getAll(l.svc, now)]

\* ModelService.getLanguageModelChatInformation
ListModels ==
  /\ \E authConfig \in BOOLEAN, bedrock \in BedrockListings :
     \E responses \in [1..Len(bedrock.models) -> ListingResponses] :
       /\ SetCache(getLanguageModelChatInformation(Cache, authConfig, bedrock, now,
                                                   responses).svc)
       /\ answer' = Listed(authConfig, bedrock,
                           getLanguageModelChatInformation(Cache, authConfig, bedrock, now,
                                                           responses))
  /\ UNCHANGED <<moreVars, streamVars, split, convVars, fnVars, now, ticks>>

\* the cache alone, under its own operations
CacheNext == CacheSet \/ CacheSetAll \/ CacheClear \/ Tick

SpecCache == CapInit /\ [][CacheNext]_vars

\* the services, the cache being filled by their fetches
CapNext == SupportsThinking \/ GetModelProperties \/ ListModels \/ CacheClear \/ Tick

SpecCap == CapInit /\ [][CapNext]_vars

(***************************************************************************)
(* sanitizeSchema and sanitizeFunctionName (converters/schema).  A schema  *)
(* is a JSON value as above; the value of a property an object does not    *)
(* have is JUndefined.                                                      *)
(***************************************************************************)
JBool(b) == [t |-> "bool", v |-> <<b>>]

JNull == [t |-> "null", v |-> <<>>]

JUndefined == [t |-> "undefined", v |-> <<>>]

\* the texts the sanitizer tests for
TextType == <<"t", "y", "p", "e">>

TextProperties == <<"p", "r", "o", "p", "e", "r", "t", "i", "e", "s">>

TextRequired == <<"r", "e", "q", "u", "i", "r", "e", "d">>

TextAdditionalProperties ==
  <<"a", "d", "d", "i", "t", "i", "o", "n", "a", "l", "P", "r", "o", "p", "e", "r", "t", "i", "e", "s">>

TextItems == <<"i", "t", "e", "m", "s">>

TextObject == <<"o", "b", "j", "e", "c", "t">>

TextString == <<"s", "t", "r", "i", "n", "g">>

TextNumber == <<"n", "u", "m", "b", "e", "r">>

TextInteger == <<"i", "n", "t", "e", "g", "e", "r">>

TextArray == <<"a", "r", "r", "a", "y">>

\* the allow set of pruneUnknownSchemaKeywords
AllowedKeywords ==
  { TextType, TextProperties, TextRequired, TextAdditionalProperties, TextItems,
    <<"d", "e", "s", "c", "r", "i", "p", "t", "i", "o", "n">>,
    <<"e", "n", "u", "m">>,
    <<"d", "e", "f", "a", "u", "l", "t">>,
    <<"m", "i", "n", "L", "e", "n", "g", "t", "h">>,
    <<"m", "a", "x", "L", "e", "n", "g", "t", "h">>,
    <<"m", "i", "n", "i", "m", "u", "m">>,
    <<"m", "a", "x", "i", "m", "u", "m">>,
    <<"p", "a", "t", "t", "e", "r", "n">>,
    <<"f", "o", "r", "m", "a", "t">> }

\* integerMarkers of isIntegerLikePropertyName
IntegerMarkers ==
  { <<"i", "d">>,
    <<"l", "i", "m", "i", "t">>,
    <<"c", "o", "u", "n", "t">>,
    <<"i", "n", "d", "e", "x">>,
    <<"s", "i", "z", "e">>,
    <<"o", "f", "f", "s", "e", "t">>,
    <<"l", "e", "n", "g", "t", "h">>,
    <<"r", "e", "s", "u", "l", "t", "s", "_", "l", "i", "m", "i", "t">>,
    <<"m", "a", "x", "r", "e", "s", "u", "l", "t", "s">>,
    <<"d", "e", "b", "u", "g", "s", "e", "s", "s", "i", "o", "n", "i", "d">>,
    <<"c", "e", "l", "l", "i", "d">> }

\* the composite keywords, in the order sanitizeSchema looks for them
Composites ==
  << <<"a", "n", "y", "O", "f">>,
     <<"o", "n", "e", "O", "f">>,
     <<"a", "l", "l", "O", "f">> >>

\* obj[k]
ObjGet(props, k) ==
  IF \E i \in 1..Len(props) : props[i].k = k
  THEN props[CHOOSE i \in 1..Len(props) : props[i].k = k].v
  ELSE JUndefined

\* delete obj[k]
ObjDelete(props, k) == SelectSeq(props, LAMBDA p : p.k # k)

\* val === text
IsText(val, text) == val.t = "str" /\ val.v = text

\* String.endsWith
EndsWith(a, b) == Len(a) >= Len(b) /\ SubSeq(a, Len(a) - Len(b) + 1, Len(a)) = b

isIntegerLikePropertyName(propertyName) ==
  /\ propertyName # <<>>
  /\ \/ \E m \in IntegerMarkers : Includes(LowerCased(propertyName), m)
     \/ EndsWith(LowerCased(propertyName), <<"_", "i", "d">>)

pruneUnknownSchemaKeywords(schemaValue) ==
  IF schemaValue.t # "obj" THEN JObj(<<>>)
  ELSE JObj(SelectSeq(schemaValue.v, LAMBDA p : p.k \in AllowedKeywords))

\* the own enumerable properties of a value: those of an object, the
\* elements of an array under their indices, the characters of a string
\* under theirs, none for any other value
OwnProperties(val) ==
  IF val.t = "obj" THEN val.v
  ELSE IF val.t = "arr" THEN [i \in 1..Len(val.v) |-> Prop(NatToChars(i - 1), val.v[i])]
  ELSE IF val.t = "str"
       THEN [i \in 1..Len(val.v) |-> Prop(NatToChars(i - 1), JStr(<<val.v[i]>>))]
  ELSE <<>>

\* b && typeof b === "object" && b.type === "string"
IsStringBranch(b) == b.t = "obj" /\ IsText(ObjGet(b.v, TextType), TextString)

\* the branch sanitizeSchema takes from a non-empty composite: the first
\* whose type is "string", else the first
ChosenBranch(branch) ==
  IF \E i \in 1..Len(branch) : IsStringBranch(branch[i])
  THEN branch[CHOOSE i \in 1..Len(branch) :
                /\ IsStringBranch(branch[i])
                /\ \A j \in 1..(i - 1) : ~IsStringBranch(branch[j])]
  ELSE branch[1]

\* the loop over anyOf, oneOf, allOf: { ...branch } of the first composite
\* that is a non-empty array
RECURSIVE CompositeBranch(_, _)
CompositeBranch(schemaValue, composites) ==
  IF composites = <<>> THEN schemaValue
  ELSE IF /\ ObjGet(schemaValue.v, Head(composites)).t = "arr"
          /\ ObjGet(schemaValue.v, Head(composites)).v # <<>>
       THEN JObj(OwnProperties(ChosenBranch(ObjGet(schemaValue.v, Head(composites)).v)))
       ELSE CompositeBranch(schemaValue, Tail(composites))

\* if (t == null) schema.type = "object"
withType(schemaValue) ==
  IF ObjGet(schemaValue.v, TextType).t \in {"undefined", "null"}
  THEN JObj(ObjSet(schemaValue.v, TextType, JStr(TextObject)))
  ELSE schemaValue

\* a "number" under an integer-like property name becomes an "integer"
withIntegerType(schemaValue, propName) ==
  IF IsText(ObjGet(schemaValue.v, TextType), TextNumber) /\ isIntegerLikePropertyName(propName)
  THEN JObj(ObjSet(schemaValue.v, TextType, JStr(TextInteger)))
  ELSE schemaValue

\* schema.required of an object schema
withRequired(schemaValue) ==
  IF ObjGet(schemaValue.v, TextRequired).t = "undefined" THEN schemaValue
  ELSE IF ObjGet(schemaValue.v, TextRequired).t = "arr"
       THEN JObj(ObjSet(schemaValue.v, TextRequired,
                        JArr(SelectSeq(ObjGet(schemaValue.v, TextRequired).v,
                                       LAMBDA r : r.t = "str"))))
  ELSE JObj(ObjSet(schemaValue.v, TextRequired, JArr(<<>>)))

\* schema.additionalProperties of an object schema
withAdditionalProperties(schemaValue) ==
  IF ObjGet(schemaValue.v, TextAdditionalProperties).t \in {"undefined", "bool"}
  THEN schemaValue
  ELSE JObj(ObjDelete(schemaValue.v, TextAdditionalProperties))

\* items[0] of a tuple, as it is
itemsOf_FirstOfTuple(items, sanitized) ==
  IF items.t = "arr" /\ items.v # <<>> THEN items.v[1]
  ELSE IF items.t \in {"obj", "arr"} THEN sanitized
  ELSE JObj(<<Prop(TextType, JStr(TextString))>>)

\* schema.items of an array schema, sanitized being what sanitizeSchema
\* returned for the first element of a tuple, or else for items itself
itemsOf(items, sanitized) ==
  IF items.t \in {"obj", "arr"} THEN sanitized
  ELSE JObj(<<Prop(TextType, JStr(TextString))>>)

\* the schema sanitizeSchema is called on for schema.items
itemsSchema(items) == IF items.t = "arr" /\ items.v # <<>> THEN items.v[1] ELSE items

\* the default of a schema that is no object
DefaultSchema == JObj(<<Prop(TextType, JStr(TextObject)), Prop(TextProperties, JObj(<<>>))>>)

RECURSIVE sanitizeSchema(_, _)
RECURSIVE sanitizeProps(_, _)
RECURSIVE sanitizeTyped(_)

\* the loop over Object.entries(props)
sanitizeProps(entries, newProps) ==
  IF entries = <<>> THEN newProps
  ELSE sanitizeProps(Tail(entries),
                     ObjSet(newProps, Head(entries).k,
                            sanitizeSchema(Head(entries).v, Head(entries).k)))

\* the branches on the type of the pruned schema
sanitizeTyped(schemaValue) ==
  IF IsText(ObjGet(schemaValue.v, TextType), TextObject)
  THEN withAdditionalProperties(withRequired(
         JObj(ObjSet(schemaValue.v, TextProperties,
                     JObj(sanitizeProps(
                            IF ObjGet(schemaValue.v, TextProperties).t \in {"obj", "arr"}
                            THEN OwnProperties(ObjGet(schemaValue.v, TextProperties))
                            ELSE <<>>,
                            <<>>))))))
  ELSE IF IsText(ObjGet(schemaValue.v, TextType), TextArray)
       THEN JObj(ObjSet(schemaValue.v, TextItems,
                        itemsOf(ObjGet(schemaValue.v, TextItems),
                                sanitizeSchema(itemsSchema(ObjGet(schemaValue.v, TextItems)),
                                               <<>>))))
  ELSE schemaValue

\* sanitizeSchema(input, propName); propName <<>> is no name
sanitizeSchema(input, propName) ==
  IF input.t # "obj" THEN DefaultSchema
  ELSE sanitizeTyped(withIntegerType(
         withType(pruneUnknownSchemaKeywords(CompositeBranch(input, Composites))),
         propName))

\* [a-zA-Z0-9_-]
NameChars == SeqToSet(Upper) \cup SeqToSet(Lower) \cup Digits \cup {"_", "-"}

\* String.replace(/_+/g, "_")
RECURSIVE CollapseUnderscores(_)
CollapseUnderscores(s) ==
  IF Len(s) < 2 THEN s
  ELSE IF s[1] = "_" /\ s[2] = "_" THEN CollapseUnderscores(Tail(s))
  ELSE <<s[1]>> \o CollapseUnderscores(Tail(s))

\* String.slice(0, n)
Slice(s, n) == SubSeq(s, 1, IF Len(s) < n THEN Len(s) ELSE n)

\* a name that is never prefixed
prefixedName_Never(sanitized) == sanitized

\* sanitizeFunctionName after the characters outside the set were replaced
prefixedName(sanitized) ==
  IF sanitized[1] \in SeqToSet(Upper) \cup SeqToSet(Lower) THEN sanitized
  ELSE <<"t", "o", "o", "l", "_">> \o sanitized

\* sanitizeFunctionName(name); a name that is no string is Undefined
sanitizeFunctionName(name) ==
  IF name = Undefined \/ name = <<>> THEN <<"t", "o", "o", "l">>
  ELSE Slice(CollapseUnderscores(prefixedName(
               [i \in 1..Len(name) |-> IF name[i] \in NameChars THEN name[i] ELSE "_"])),
             64)

(***************************************************************************)
(* sanitizeSchema applied to a schema, and again to what it returned.       *)
(***************************************************************************)
TextId == <<"i", "d">>

TextX == <<"x">>

TextCount == <<"c", "o", "u", "n", "t">>

TypeOnly(text) == JObj(<<Prop(TextType, JStr(text))>>)

\* a schema of an object whose required and additionalProperties are as given
ObjectWith(required, additionalProperties) ==
  JObj(<<Prop(TextType, JStr(TextObject)), Prop(TextRequired, required),
         Prop(TextAdditionalProperties, additionalProperties)>>)

\* schemas and other values without a schema inside:
\*   {type:"string"}  {type:"number"}  {type:"array"}  {}  {type:null}
\*   {type:"string",title:"x"}  {title:"x",type:"number",properties:{x:5}}
\*   {type:"object",required:["x",1],additionalProperties:{}}
\*   {type:"object",required:"x",additionalProperties:true}
\*   5  "x"  null  true  []
SchemaLeaves ==
  { TypeOnly(TextString), TypeOnly(TextNumber), TypeOnly(TextArray), JObj(<<>>),
    JObj(<<Prop(TextType, JNull)>>),
    JObj(<<Prop(TextType, JStr(TextString)), Prop(<<"t", "i", "t", "l", "e">>, JStr(TextX))>>),
    JObj(<<Prop(<<"t", "i", "t", "l", "e">>, JStr(TextX)), Prop(TextType, JStr(TextNumber)),
           Prop(TextProperties, JObj(<<Prop(TextX, JNum(5))>>))>>),
    ObjectWith(JArr(<<JStr(TextX), JNum(1)>>), JObj(<<>>)),
    ObjectWith(JStr(TextX), JBool(TRUE)),
    JNum(5), JStr(TextX), JNull, JBool(TRUE), JArr(<<>>) }

\* the values combined in pairs
SchemaBranches ==
  { TypeOnly(TextString), TypeOnly(TextNumber), JObj(<<>>), JNum(5),
    JObj(<<Prop(<<"t", "i", "t", "l", "e">>, JStr(TextX)), Prop(TextType, JStr(TextNumber)),
           Prop(TextProperties, JObj(<<Prop(TextX, JNum(5))>>))>>) }

\* schemas with the values above inside: composites, object properties
\* (also given as an array), array items (also as a tuple)
SchemasOver(leaves, branches) ==
  {JObj(<<Prop(Composites[1], JArr(<<a, b>>))>>) : a \in branches, b \in branches}
  \cup {JObj(<<Prop(Composites[2], JArr(<<>>)), Prop(Composites[3], JArr(<<a>>)),
               Prop(TextType, JStr(TextArray))>>) : a \in leaves}
  \cup {JObj(<<Prop(TextType, JStr(TextObject)),
               Prop(TextProperties, JObj(<<Prop(TextId, a), Prop(TextX, b)>>))>>) :
          a \in branches, b \in branches}
  \cup {JObj(<<Prop(TextProperties, JArr(<<a>>))>>) : a \in branches}
  \cup {JObj(<<Prop(TextType, JStr(TextArray)), Prop(TextItems, a)>>) : a \in leaves}
  \cup {JObj(<<Prop(TextItems, JArr(<<a, b>>)), Prop(TextType, JStr(TextArray))>>) :
          a \in branches, b \in branches}

\* one more level: a property, and an item, holding one of the schemas
NestedOver(inner) ==
  {JObj(<<Prop(TextProperties, JObj(<<Prop(TextCount, a)>>))>>) : a \in inner}
  \cup {JObj(<<Prop(TextType, JStr(TextArray)), Prop(TextItems, a)>>) : a \in inner}

\* {title:"x",type:"string"}
TitledString ==
  JObj(<<Prop(<<"t", "i", "t", "l", "e">>, JStr(TextX)), Prop(TextType, JStr(TextString))>>)

\* schemas that hold a schema under a keyword their type gives no meaning to:
\*   {type:"string",properties:{x:{title:"x",type:"string"}}}
\*   {type:"object",items:{title:"x",type:"string"}}
\*   {type:"array",items:{type:"string"},properties:{x:{title:"x",type:"string"}}}
\*   {type:"object",properties:{x:{type:"number",items:[{title:"x",type:"string"}]}}}
SchemaStrays ==
  { JObj(<<Prop(TextType, JStr(TextString)),
           Prop(TextProperties, JObj(<<Prop(TextX, TitledString)>>))>>),
    JObj(<<Prop(TextType, JStr(TextObject)), Prop(TextItems, TitledString)>>),
    JObj(<<Prop(TextType, JStr(TextArray)), Prop(TextItems, TypeOnly(TextString)),
           Prop(TextProperties, JObj(<<Prop(TextX, TitledString)>>))>>),
    JObj(<<Prop(TextType, JStr(TextObject)),
           Prop(TextProperties,
                JObj(<<Prop(TextX, JObj(<<Prop(TextType, JStr(TextNumber)),
                                          Prop(TextItems, JArr(<<TitledString>>))>>))>>))>>) }

Schemas ==
  SchemaLeaves \cup SchemasOver(SchemaLeaves, SchemaBranches)
  \cup NestedOver(SchemasOver(SchemaLeaves, SchemaBranches))
  \cup SchemaStrays

\* the property-name hints: none, an integer-like name, another name
PropNames == {<<>>, <<"U", "s", "e", "r", "_", "I", "D">>, TextX}

SchemaInit ==
  /\ IdleOthers
  /\ NewCache
  /\ toolsCall = NoToolsCall
  /\ request = NoRequest
  /\ \E input \in Schemas, propName \in PropNames :
       schema = [phase |-> "given", input |-> input, propName |-> propName,
                 once |-> JUndefined, twice |-> JUndefined]

\* sanitizeSchema(input, propName)
Sanitize ==
  /\ schema.phase = "given"
  /\ schema' = [schema EXCEPT !.phase = "once",
                              !.once = sanitizeSchema(schema.input, schema.propName)]
  /\ UNCHANGED <<moreVars, streamVars, split, convVars, capVars, toolsCall, request>>

\* sanitizeSchema on the schema it returned, under the same name
SanitizeAgain ==
  /\ schema.phase = "once"
  /\ schema' = [schema EXCEPT !.phase = "twice",
                              !.twice = sanitizeSchema(schema.once, schema.propName)]
  /\ UNCHANGED <<moreVars, streamVars, split, convVars, capVars, toolsCall, request>>

SchemaNext == Sanitize \/ SanitizeAgain

SpecSchema == SchemaInit /\ [][SchemaNext]_vars

(***************************************************************************)
(* convertTools (tool-buffer.ts).  A declared tool is a record of its name, *)
(* its description and its inputSchema, the last two JSON values or         *)
(* undefined; the declared tools are objects, as the host declares them.    *)
(* The profile of the model is an input: supportsToolChoice is either       *)
(* value.  The result is the tool configuration as a JSON value.            *)
(***************************************************************************)
MaxTools == 2

TextName == <<"n", "a", "m", "e">>

TextDescription == <<"d", "e", "s", "c", "r", "i", "p", "t", "i", "o", "n">>

TextInputSchema == <<"i", "n", "p", "u", "t", "S", "c", "h", "e", "m", "a">>

TextJson == <<"j", "s", "o", "n">>

TextToolSpec == <<"t", "o", "o", "l", "S", "p", "e", "c">>

TextTools == <<"t", "o", "o", "l", "s">>

TextToolChoice == <<"t", "o", "o", "l", "C", "h", "o", "i", "c", "e">>

TextTool == <<"t", "o", "o", "l">>

TextAuto == <<"a", "u", "t", "o">>

\* vscode.LanguageModelChatToolMode, and no mode given
ToolModes == {"Auto", "Required", "unset"}

\* t.inputSchema ?? { type: "object", properties: {} }
inputSchemaOf(t) ==
  IF t.inputSchema.t \in {"undefined", "null"}
  THEN JObj(<<Prop(TextType, JStr(TextObject)), Prop(TextProperties, JObj(<<>>))>>)
  ELSE t.inputSchema

\* the callback of tools.map
toolSpecOf(t) ==
  JObj(<<Prop(TextName, JStr(sanitizeFunctionName(t.name))),
         Prop(TextDescription,
              IF t.description.t = "str" THEN t.description ELSE JStr(<<>>)),
         Prop(TextInputSchema,
              JObj(<<Prop(TextJson, sanitizeSchema(inputSchemaOf(t), <<>>))>>))>>)

\* toolConfig before the tool choice is added
toolConfigOf(tools) ==
  JObj(<<Prop(TextTools,
              JArr([i \in 1..Len(tools) |->
                      JObj(<<Prop(TextToolSpec, toolSpecOf(tools[i]))>>)]))>>)

\* toolChoice naming the tool
toolChoiceOf(name) ==
  JObj(<<Prop(TextTool, JObj(<<Prop(TextName, JStr(name))>>))>>)

\* toolChoice { auto: {} }
toolChoiceAuto == JObj(<<Prop(TextAuto, JObj(<<>>))>>)

Returned(toolConfig) == [threw |-> FALSE, config |-> toolConfig]

Thrown == [threw |-> TRUE, config |-> JUndefined]

\* convertTools that takes the first of several tools in Required mode
convertTools_FirstOfSeveral(tools, toolMode, supportsToolChoice) ==
  IF Len(tools) = 0 THEN Returned(JUndefined)
  ELSE IF ~supportsToolChoice THEN Returned(toolConfigOf(tools))
  ELSE IF toolMode = "Required"
       THEN Returned(JObj(ObjSet(toolConfigOf(tools).v, TextToolChoice,
                                 toolChoiceOf(sanitizeFunctionName(tools[1].name)))))
       ELSE Returned(JObj(ObjSet(toolConfigOf(tools).v, TextToolChoice, toolChoiceAuto)))

\* convertTools(options, modelId), for options.tools, options.toolMode and
\* getModelProfile(modelId).supportsToolChoice
convertTools(tools, toolMode, supportsToolChoice) ==
  IF Len(tools) = 0 THEN Returned(JUndefined)
  ELSE IF ~supportsToolChoice THEN Returned(toolConfigOf(tools))
  ELSE IF toolMode = "Required"
       THEN IF Len(tools) # 1 THEN Thrown
            ELSE Returned(JObj(ObjSet(toolConfigOf(tools).v, TextToolChoice,
                                      toolChoiceOf(sanitizeFunctionName(tools[1].name)))))
       ELSE Returned(JObj(ObjSet(toolConfigOf(tools).v, TextToolChoice, toolChoiceAuto)))

\* tool names: f, get-x, a b (a character outside the set), 1a (no leading
\* letter), a__b (a run of underscores)
ToolNames ==
  { <<"f">>, <<"g", "e", "t", "-", "x">>, <<"a", " ", "b">>, <<"1", "a">>,
    <<"a", "_", "_", "b">> }

\* each name declared with a description and a schema, and with neither
DeclaredTools ==
  {[name |-> n, description |-> JStr(<<"d">>), inputSchema |-> TypeOnly(TextString)] :
     n \in ToolNames}
  \cup {[name |-> n, description |-> JUndefined, inputSchema |-> JUndefined] :
          n \in ToolNames}

\* options.tools: up to MaxTools declared tools
ToolLists == UNION {[1..n -> DeclaredTools] : n \in 0..MaxTools}

ToolsInit ==
  /\ IdleOthers
  /\ NewCache
  /\ schema = NoSchema
  /\ request = NoRequest
  /\ \E tools \in ToolLists, toolMode \in ToolModes, supportsToolChoice \in BOOLEAN :
       toolsCall = [phase |-> "given", tools |-> tools, toolMode |-> toolMode,
                    supportsToolChoice |-> supportsToolChoice,
                    result |-> Returned(JUndefined)]

\* convertTools(options, modelId)
ConvertTools ==
  /\ toolsCall.phase = "given"
  /\ toolsCall' = [toolsCall EXCEPT
                     !.phase = "done",
                     !.result = convertTools(toolsCall.tools, toolsCall.toolMode,
                                             toolsCall.supportsToolChoice)]
  /\ UNCHANGED <<moreVars, streamVars, split, convVars, capVars, schema, request>>

ToolsNext == ConvertTools

SpecTools == ToolsInit /\ [][ToolsNext]_vars

(***************************************************************************)
(* sanitizeFunctionName applied to a name.                                  *)
(***************************************************************************)
MaxNameLen == 3

\* a letter of each case, a digit, the underscore, the hyphen, and two
\* characters outside the set
NameAlphabet == {"a", "Z", "1", "_", "-", " ", "."}

ShortNames == UNION {[1..n -> NameAlphabet] : n \in 1..MaxNameLen}

\* 63 letters, which make a short name a name of 64 characters or more
NameFiller == [i \in 1..63 |-> "b"]

\* the names given: nothing that is a string, the empty string, the short
\* names, and the names of one or two characters made long
FunctionNames ==
  {Undefined, <<>>} \cup ShortNames
  \cup {n \o NameFiller : n \in [1..1 -> NameAlphabet] \cup [1..2 -> NameAlphabet]}

NamesInit ==
  /\ IdleOthers
  /\ NewCache
  /\ schema = NoSchema
  /\ request = NoRequest
  /\ \E name \in FunctionNames :
       toolsCall = [phase |-> "name", name |-> name, result |-> Undefined]

\* sanitizeFunctionName(name)
SanitizeName ==
  /\ toolsCall.phase = "name"
  /\ toolsCall' = [toolsCall EXCEPT !.phase = "named",
                                    !.result = sanitizeFunctionName(toolsCall.name)]
  /\ UNCHANGED <<moreVars, streamVars, split, convVars, capVars, schema, request>>

NamesNext == SanitizeName

SpecNames == NamesInit /\ [][NamesNext]_vars

(***************************************************************************)
(* ChatRequestHandler.handleChatRequest, one call on a new handler.  A      *)
(* temperature is counted in tenths (7 is 0.7, 10 is 1.0); modelOptions      *)
(* carries max_tokens and temperature, each <<>> when absent.  The thinking  *)
(* configuration is present or absent.  messages and system of the request   *)
(* input are those of converted.                                             *)
(***************************************************************************)
MAX_TOOLS == 128

DEFAULT_MAX_TOKENS == 4096

DEFAULT_TEMPERATURE == 7

THINKING_TEMPERATURE == 10

Max(a, b) == IF a > b THEN a ELSE b

Min(a, b) == IF a < b THEN a ELSE b

\* Math.floor(n / 4)
CeilQuarter_Floor(n) == n \div 4

\* Math.ceil(n / 4)
CeilQuarter(n) == (n + 3) \div 4

\* the inner loop of estimateMessagesTokens: the text parts of one message
RECURSIVE estimatePartsTokens(_)
estimatePartsTokens(content) ==
  IF content = <<>> THEN 0
  ELSE (IF Head(content).kind = "Text" THEN CeilQuarter(Len(Head(content).value)) ELSE 0)
       + estimatePartsTokens(Tail(content))

\* TokenEstimator.estimateMessagesTokens
RECURSIVE estimateMessagesTokens(_)
estimateMessagesTokens(msgs) ==
  IF msgs = <<>> THEN 0
  ELSE estimatePartsTokens(Head(msgs).content) + estimateMessagesTokens(Tail(msgs))

\* TokenEstimator.estimateToolTokens; the serialisation of a tool
\* configuration does not fail
estimateToolTokens(toolConfig) ==
  IF toolConfig.t # "obj" THEN 0
  ELSE IF Len(ObjGet(toolConfig.v, TextTools).v) = 0 THEN 0
  ELSE CeilQuarter(Len(JSONStringify(toolConfig)))

\* validateTools (validation.ts): "raised" when a name does not match
\* /^[\w-]+$/; handleChatRequest does not call it
validateTools(tools) ==
  IF \E i \in 1..Len(tools) :
        \/ tools[i].name = <<>>
        \/ \E j \in 1..Len(tools[i].name) : tools[i].name[j] \notin NameChars
  THEN "raised"
  ELSE "ok"

\* the checks after convertTools returned tc, without the count of the tools
toolsChecked_WithoutCount(msgs, options, model, tc) ==
  IF tc.threw THEN "toolChoice"
  ELSE IF estimateMessagesTokens(msgs) + estimateToolTokens(tc.config)
            > Max(1, model.maxInputTokens)
       THEN "tokenLimit"
  ELSE "none"

\* the checks after convertTools returned tc: the number of tools, then the
\* token estimate
toolsChecked(msgs, options, model, tc) ==
  IF tc.threw THEN "toolChoice"
  ELSE IF Len(options.tools) > MAX_TOOLS THEN "tooManyTools"
  ELSE IF estimateMessagesTokens(msgs) + estimateToolTokens(tc.config)
            > Max(1, model.maxInputTokens)
       THEN "tokenLimit"
  ELSE "none"

\* what the checks of the try block raise, in the order of the code, after
\* the messages were converted: "none" when they pass
requestError(msgs, options, model, supportsToolChoice) ==
  IF validateRequest(msgs) = "raised" THEN "validation"
  ELSE toolsChecked(msgs, options, model,
                    convertTools(options.tools, options.toolMode, supportsToolChoice))

\* thinkingConfig ? await this.modelService.supportsThinking(model.id) : false
resolveThinking(svc, modelId, t, response, thinkingConfig) ==
  IF ~thinkingConfig
  THEN [svc |-> svc, fetched |-> "skipped", raised |-> FALSE, result |-> FALSE]
  ELSE ModelService_supportsThinking(svc, modelId, t, response, thinkingConfig)

\* inferenceConfig.temperature that keeps the caller's value
temperatureOf_Callers(thinking, temperature) ==
  IF temperature = <<>> THEN DEFAULT_TEMPERATURE ELSE temperature[1]

\* inferenceConfig.temperature, thinking being thinkingConfig && supportsThinking
temperatureOf(thinking, temperature) ==
  IF thinking THEN THINKING_TEMPERATURE
  ELSE IF temperature = <<>> THEN DEFAULT_TEMPERATURE ELSE temperature[1]

\* inferenceConfig.maxTokens
maxTokensOf(max_tokens, maxOutputTokens) ==
  Min(IF max_tokens = <<>> \/ max_tokens[1] = 0 THEN DEFAULT_MAX_TOKENS ELSE max_tokens[1],
      maxOutputTokens)

NoRequestInput ==
  [built |-> FALSE, modelId |-> <<>>, maxTokens |-> 0, temperature |-> 0,
   toolConfig |-> JUndefined, thinking |-> FALSE]

\* requestInput as handed to startConversationStream
requestInputOf(model, options, toolConfig, thinking) ==
  [built |-> TRUE, modelId |-> model.id,
   maxTokens |-> maxTokensOf(options.max_tokens, model.maxOutputTokens),
   temperature |-> temperatureOf(thinking, options.temperature),
   toolConfig |-> toolConfig, thinking |-> thinking]

\* trackingProgress.report that lets the failure of progress.report through
trackingFailAt_Rethrowing(failAt) == failAt

\* the report call of processStream that raises while an event is handled,
\* when the caller's progress.report raises at call failAt of the event
\* (0: at none): trackingProgress.report catches and logs, none raises
trackingFailAt(failAt) == 0

\* the parts of out that the caller's progress.report took: all but the one
\* at failAt
TakenOf(out, failAt) ==
  [i \in 1..(Len(out) - (IF failAt \in 1..Len(out) THEN 1 ELSE 0)) |->
     IF failAt = 0 \/ i < failAt THEN out[i] ELSE out[i + 1]]

\* the catch block: the error is logged, shown and thrown on
Failed(req, error) ==
  [req EXCEPT !.pc = "failed", !.error = error, !.shown = TRUE, !.rethrown = TRUE]

\* the request after processStream handled an event with outcome r, the
\* caller's progress.report having raised at call failAt
Reported(req, r, failAt) ==
  IF r.env.threw THEN Failed(req, "sink")
  ELSE [req EXCEPT !.pos = @ + 1,
                   !.delivered = @ \o TakenOf(r.env.out, failAt),
                   !.reportFailed = @ \cup (IF failAt = 0 THEN {}
                                            ELSE {Len(emitted) + failAt})]

(***************************************************************************)
(* The requests explored.                                                   *)
(***************************************************************************)
ToolF == [name |-> <<"f">>, description |-> JStr(<<"d">>), inputSchema |-> JUndefined]

ToolG == [name |-> <<"g">>, description |-> JUndefined, inputSchema |-> TypeOnly(TextString)]

\* a tool whose name holds a space and an exclamation mark
ToolBadName ==
  [name |-> <<"a", " ", "b", "!">>, description |-> JUndefined, inputSchema |-> JUndefined]

\* options.tools: none, one, one with a name outside the character set, two,
\* MAX_TOOLS of them, and one more
RequestTools ==
  { <<>>, <<ToolF>>, <<ToolBadName>>, <<ToolF, ToolG>>,
    [i \in 1..MAX_TOOLS |-> ToolF], [i \in 1..(MAX_TOOLS + 1) |-> ToolF] }

\* [temperature, max_tokens] of options.modelOptions
ModelOptions ==
  { [temperature |-> <<>>, max_tokens |-> <<>>],
    [temperature |-> <<0>>, max_tokens |-> <<0>>],
    [temperature |-> <<3>>, max_tokens |-> <<10>>] }

Options(tools, toolMode, mo) ==
  [tools |-> tools, toolMode |-> toolMode, temperature |-> mo.temperature,
   max_tokens |-> mo.max_tokens]

\* model.maxInputTokens: 0, the estimate of the request of one text part with
\* ToolF as the required tool, and the limit of a large model
InputLimits == {0, 38, 200000}

ModelC3Id == <<"u", "s", ".", "c", ".", "3", "-", "v">>

ChatModel(id, maxInputTokens) ==
  [id |-> id, maxInputTokens |-> maxInputTokens, maxOutputTokens |-> 64]

\* the message lists: one text part; two text parts and an image; a tool
\* call with its result and a text; a tool call without result
RequestLists ==
  { <<Message("user", <<TextPart(<<"h">>)>>)>>,
    <<Message("user", <<TextPart(<<"h">>), TextPart(<<"h">>),
                        DataPart(<<"i", "m", "a", "g", "e", "/", "P", "N", "G">>, <<"d">>)>>)>>,
    <<Message("assistant", <<CallA>>), Message("user", <<ResultA>>),
      Message("user", <<TextPart(<<"h", "h", "h", "h", "h">>)>>)>>,
    <<Message("user", <<TextPart(<<"h">>)>>), Message("assistant", <<CallA>>)>> }

\* the calls: every message list, tool list, tool mode and input limit
\* without model options; and the model options with each of two models,
\* without tools and with one
RequestCalls ==
  {[messages |-> msgs, model |-> ChatModel(ModelC3Id, limit),
    options |-> Options(tools, toolMode, [temperature |-> <<>>, max_tokens |-> <<>>])] :
     msgs \in RequestLists, limit \in InputLimits, tools \in RequestTools,
     toolMode \in {"Auto", "Required"}}
  \cup
  {[messages |-> <<Message("user", <<TextPart(<<"h">>)>>)>>, model |-> ChatModel(id, 200000),
    options |-> Options(tools, "Auto", mo)] :
     id \in {ModelC3Id, <<"q">>}, tools \in {<<>>, <<ToolF>>}, mo \in ModelOptions}

\* what fetch answers to the capability query of the request
RequestResponses ==
  { [kind |-> "error", data |-> <<>>],
    [kind |-> "json", data |-> <<ModelM1, ModelC3>>],
    [kind |-> "json", data |-> <<ModelOdd, ModelC3Legacy>>] }

\* the streams the vendor answers with: two text deltas; a tool call
\* followed by a text delta and the message stop
RequestStreams ==
  { <<DeltaEvent(NoIndex, <<>>, <<"h">>, <<>>), DeltaEvent(NoIndex, <<>>, <<"i">>, <<>>)>>,
    <<StartEvent(1, TRUE, <<"x">>, <<"f">>), DeltaEvent(1, <<>>, <<>>, <<"{", "}">>),
      DeltaEvent(NoIndex, <<>>, <<"h">>, <<>>), MessageStopEvent>> }

NewRequest(model, options) ==
  [pc |-> "called", model |-> model, options |-> options, supportsToolChoice |-> FALSE,
   thinkingConfig |-> FALSE, supportsThinking |-> FALSE, error |-> "none",
   shown |-> FALSE, rethrown |-> FALSE, requestInput |-> NoRequestInput,
   toolConfig |-> JUndefined, fetches |-> 0, started |-> 0, stream |-> <<>>, pos |-> 0,
   delivered |-> <<>>, reportFailed |-> {}]

ReqInit ==
  /\ StreamInit
  /\ IdleMore
  /\ split = NoSplit
  /\ validated = "none"
  /\ converted = NotConverted
  /\ NewCache
  /\ schema = NoSchema
  /\ toolsCall = NoToolsCall
  /\ \E call \in RequestCalls :
       /\ messages = call.messages
       /\ request = NewRequest(call.model, call.options)

\* getAuthConfig answers: without a configuration the request fails
Authenticate ==
  /\ request.pc = "called"
  /\ \E authConfig \in BOOLEAN :
       request' = IF authConfig THEN [request EXCEPT !.pc = "checks"]
                  ELSE Failed(request, "auth")
  /\ UNCHANGED <<moreVars, streamVars, split, convVars, capVars, schema, toolsCall>>

\* the request after the checks answered error
Checked(req, error, tc, supportsToolChoice) ==
  IF error # "none"
  THEN Failed([req EXCEPT !.supportsToolChoice = supportsToolChoice,
                          !.toolConfig = tc.config],
              error)
  ELSE [req EXCEPT !.pc = "thinking", !.supportsToolChoice = supportsToolChoice,
                   !.toolConfig = tc.config]

\* convertMessages, validateRequest, convertTools, the tool count and the
\* token estimate; the profile of the model answers either way
CheckRequest ==
  /\ request.pc = "checks"
  /\ \E toolResultFormat \in ToolResultFormats, supportsToolChoice \in BOOLEAN :
       /\ converted' = Converted(convertMessages(messages, toolResultFormat))
       /\ request' = Checked(request,
                             requestError(messages, request.options, request.model,
                                          supportsToolChoice),
                             convertTools(request.options.tools, request.options.toolMode,
                                          supportsToolChoice),
                             supportsToolChoice)
  /\ validated' = validateRequest(messages)
  /\ UNCHANGED <<moreVars, streamVars, split, messages, capVars, schema, toolsCall>>

\* the request after the capability query answered q
ThinkingResolved(req, q, thinkingConfig) ==
  IF q.raised
  THEN Failed([req EXCEPT !.thinkingConfig = thinkingConfig,
                          !.fetches = @ + (IF q.fetched = "skipped" THEN 0 ELSE 1)],
              "capability")
  ELSE [req EXCEPT !.pc = "start",
                   !.thinkingConfig = thinkingConfig,
                   !.supportsThinking = q.result,
                   !.fetches = @ + (IF q.fetched = "skipped" THEN 0 ELSE 1),
                   !.requestInput = requestInputOf(req.model, req.options, req.toolConfig,
                                                   thinkingConfig /\ q.result)]

\* getThinkingConfig, the capability query when thinking is configured, and
\* the request input
ResolveThinking ==
  /\ request.pc = "thinking"
  /\ \E thinkingConfig \in BOOLEAN, response \in RequestResponses :
       /\ SetCache(resolveThinking(Cache, request.model.id, now, response,
                                   thinkingConfig).svc)
       /\ request' = ThinkingResolved(request,
                                      resolveThinking(Cache, request.model.id, now, response,
                                                      thinkingConfig),
                                      thinkingConfig)
  /\ UNCHANGED <<moreVars, streamVars, split, convVars, now, ticks, answer, schema, toolsCall>>

\* startConversationStream answers with a stream: processStream is entered
StartStream ==
  /\ request.pc = "start"
  /\ \E stream \in RequestStreams :
       request' = [request EXCEPT !.pc = "stream", !.started = @ + 1, !.stream = stream]
  /\ SetProcessor(processStreamEntry(Processor))
  /\ pc' = "loop"
  /\ cancelled' = FALSE
  /\ emitted' = <<>>
  /\ log' = {}
  /\ runs' = runs + 1
  /\ prevCalls' = ToolCallsOf(emitted)
  /\ blocks' = [i \in Indices |-> NoBlock]
  /\ parseable' = {}
  /\ dropped' = 0
  /\ UNCHANGED <<moreVars, thinkingPartAvailable, nEvents, split, convVars, capVars, schema,
                 toolsCall>>

\* startConversationStream raises
StartStreamFails ==
  /\ request.pc = "start"
  /\ request' = Failed([request EXCEPT !.started = @ + 1], "network")
  /\ UNCHANGED <<moreVars, streamVars, split, convVars, capVars, schema, toolsCall>>

\* the caller requests cancellation while the stream is read
CancelRequest ==
  /\ request.pc = "stream"
  /\ pc = "loop"
  /\ ~cancelled
  /\ cancelled' = TRUE
  /\ UNCHANGED <<moreVars, procVars, pc, emitted, log, nEvents, runs, prevCalls, obsVars, split,
                 convVars, capVars, fnVars>>

\* the event the stream yields next
NextEvent == request.stream[request.pos + 1]

\* the stream yields its next event; the caller's progress.report may raise
\* inside trackingProgress.report
StreamEvent ==
  /\ request.pc = "stream"
  /\ pc = "loop"
  /\ ~CancellationSeen
  /\ request.pos < Len(request.stream)
  /\ \E rnd \in RandomSuffixes :
     \E host \in HostAnswers(NextEvent) :
     \E failAt \in FailPointsOf(processEvent(Processor, NextEvent, NewEnv(0, rnd),
                                             host = "yes")) :
       /\ Handled(NextEvent,
                  processEvent(Processor, NextEvent, NewEnv(trackingFailAt(failAt), rnd),
                               host = "yes"),
                  host)
       /\ request' = Reported(request,
                              processEvent(Processor, NextEvent,
                                           NewEnv(trackingFailAt(failAt), rnd), host = "yes"),
                              failAt)
  /\ nEvents' = nEvents + 1
  /\ UNCHANGED <<moreVars, cancelled, runs, prevCalls, split, convVars, capVars, schema, toolsCall>>

\* the stream yields an event after cancellation was requested: break,
\* finally, and the request ends
StreamEventCancelled ==
  /\ request.pc = "stream"
  /\ pc = "loop"
  /\ CancellationSeen
  /\ request.pos < Len(request.stream)
  /\ SetProcessor(processStreamFinally(Processor))
  /\ pc' = "returned"
  /\ CallEnded(Processor)
  /\ request' = [request EXCEPT !.pc = "done"]
  /\ UNCHANGED <<moreVars, thinkingPartAvailable, cancelled, emitted, nEvents, runs, prevCalls,
                 split, convVars, capVars, schema, toolsCall>>

\* the stream is exhausted: processStream returns and the request ends
RequestStreamEnd ==
  /\ request.pc = "stream"
  /\ pc = "loop"
  /\ request.pos = Len(request.stream)
  /\ SetProcessor(processStreamFinally(Processor))
  /\ pc' = "returned"
  /\ CallEnded(Processor)
  /\ request' = [request EXCEPT !.pc = "done"]
  /\ UNCHANGED <<moreVars, thinkingPartAvailable, cancelled, emitted, nEvents, runs, prevCalls,
                 split, convVars, capVars, schema, toolsCall>>

\* the stream raises: finally, and the catch block of the handler
RequestStreamThrows ==
  /\ request.pc = "stream"
  /\ pc = "loop"
  /\ SetProcessor(processStreamFinally(Processor))
  /\ pc' = "raised"
  /\ CallEnded(Processor)
  /\ request' = Failed(request, "stream")
  /\ UNCHANGED <<moreVars, thinkingPartAvailable, cancelled, emitted, nEvents, runs, prevCalls,
                 split, convVars, capVars, schema, toolsCall>>

ReqNext ==
  \/ Authenticate
  \/ CheckRequest
  \/ ResolveThinking
  \/ StartStream
  \/ StartStreamFails
  \/ CancelRequest
  \/ StreamEvent
  \/ StreamEventCancelled
  \/ RequestStreamEnd
  \/ RequestStreamThrows

SpecReq == ReqInit /\ [][ReqNext]_vars

(***************************************************************************)
(* One call of processStream on deltas that carry reasoning text, text and *)
(* tool input in every combination; the event handled last is recorded      *)
(* with the parts handed to the sink while it was handled.                  *)
(***************************************************************************)
MaxDeltas == 3

\* deltas of the block without index, a tool-use block-start and the message stop
DeltaStreamEvents ==
  {DeltaEvent(NoIndex, r, t, i) :
     r \in {<<>>, <<"t">>}, t \in {<<>>, <<"h">>}, i \in {<<>>, <<"{", "}">>}}
  \cup {StartEvent(NoIndex, TRUE, <<"x">>, <<"f">>), MessageStopEvent}

\* the report calls of an event that may raise: none, the first, the second
DeltaFailPointsOf(r) == {f \in 0..2 : f <= Len(r.env.out)}

\* processStream is called once
CallOnce == runs = 0 /\ Call

\* the record of the event handled with outcome r
HandledLast(event, r, host) ==
  [event |-> event, out |-> r.env.out, threw |-> r.env.threw, host |-> host]

\* the stream yields an event
OnDelta ==
  /\ pc = "loop"
  /\ ~CancellationSeen
  /\ nEvents < MaxDeltas
  /\ \E event \in DeltaStreamEvents, rnd \in RandomSuffixes :
     \E host \in HostAnswers(event) :
     \E failAt \in DeltaFailPointsOf(processEvent(Processor, event, NewEnv(0, rnd),
                                                  host = "yes")) :
       /\ Handled(event, processEvent(Processor, event, NewEnv(failAt, rnd), host = "yes"),
                  host)
       /\ lastHandled' = HandledLast(event,
                                     processEvent(Processor, event, NewEnv(failAt, rnd),
                                                  host = "yes"),
                                     host)
  /\ nEvents' = nEvents + 1
  /\ UNCHANGED <<cancelled, runs, prevCalls, split, convVars, svcVars, inflight, queries>>

DeltasNext == CallOnce \/ OnDelta \/ StreamEnd

SpecDeltas == Init /\ [][DeltasNext]_vars

(***************************************************************************)
(* Capability queries over catalogs whose ids overlap: ids with and         *)
(* without a region prefix, in either case, nested in one another.          *)
(***************************************************************************)
\* catalog records; context_length tells them apart
MatchUsAb == CatalogModel(<<"u", "s", ".", "a", "b">>, <<1>>, <<>>, Words({"reasoning"}))

MatchADotB == CatalogModel(<<"p", "/", "A", ".", "b">>, <<2>>, <<8>>, Absent)

MatchB == CatalogModel(<<"b">>, <<3>>, <<>>, Words({"tools", "include_reasoning"}))

MatchAb == CatalogModel(<<"p", "/", "a", "b">>, <<4>>, <<>>, Words({"tools"}))

\* what fetch answers
MatchResponses ==
  { [kind |-> "json", data |-> <<MatchUsAb>>],
    [kind |-> "json", data |-> <<MatchADotB, MatchB>>],
    [kind |-> "json", data |-> <<MatchB, MatchADotB>>],
    [kind |-> "json", data |-> <<MatchAb, MatchB>>],
    [kind |-> "json", data |-> <<MatchUsAb, MatchAb>>],
    [kind |-> "error", data |-> <<>>] }

\* the model ids queried:  us-a  abc  US.A.B  apac.b  ap.ab  x  a-b  global.
MatchModelIds ==
  { <<"u", "s", "-", "a">>,
    <<"a", "b", "c">>,
    <<"U", "S", ".", "A", ".", "B">>,
    <<"a", "p", "a", "c", ".", "b">>,
    <<"a", "p", ".", "a", "b">>,
    <<"x">>,
    <<"a", "-", "b">>,
    <<"g", "l", "o", "b", "a", "l", ".">> }

\* OpenRouterClient.supportsThinking is asked about a model
MatchThinking ==
  /\ \E modelId \in MatchModelIds, response \in MatchResponses :
       /\ SetCache(supportsThinking(Cache, modelId, now, response).svc)
       /\ answer' = Answer("supportsThinking", modelId,
                           supportsThinking(Cache, modelId, now, response))
  /\ UNCHANGED <<moreVars, streamVars, split, convVars, fnVars, now, ticks>>

\* OpenRouterClient.getModelProperties is asked about a model
MatchProperties ==
  /\ \E modelId \in MatchModelIds, response \in MatchResponses :
       /\ SetCache(getModelProperties(Cache, modelId, now, response).svc)
       /\ answer' = Answer("getModelProperties", modelId,
                           getModelProperties(Cache, modelId, now, response))
  /\ UNCHANGED <<moreVars, streamVars, split, convVars, fnVars, now, ticks>>

MatchNext == MatchThinking \/ MatchProperties \/ CacheClear

SpecMatch == CapInit /\ [][MatchNext]_vars

(***************************************************************************)
(* Capability queries that overlap on one OpenRouterClient.  A query is     *)
(* supportsThinking(modelId); it gives way to other queries where the code  *)
(* awaits: at fetch(), at response.json() and at the return of              *)
(* fetchMetadata.  Between two awaits the code runs without interruption.   *)
(***************************************************************************)
MaxQueries == 2

\* what fetch answers to the overlapping queries
OverlapResponses ==
  { [kind |-> "error", data |-> <<>>],
    [kind |-> "json", data |-> <<ModelM1, ModelC3>>],
    [kind |-> "json", data |-> <<ModelOdd, ModelC3Legacy>>] }

OverlapModelIds == {<<"u", "s", ".", "c", ".", "3", "-", "v">>}

\* a query that has just been called: pc is where it waits
NewQuery(modelId, at) ==
  [pc |-> at, modelId |-> modelId, fetched |-> at = "fetch", body |-> <<>>, stored |-> 0,
   seen |-> <<>>, result |-> NoResult]

\* the number of setAll calls made by the queries so far
Stores == Cardinality({i \in 1..Len(queries) : queries[i].stored > 0})

\* supportsThinking is called: fetchMetadata tests the cache and, when it is
\* invalid, calls fetch
StartQuery ==
  /\ Len(queries) < MaxQueries
  /\ \E modelId \in OverlapModelIds :
       queries' = Append(queries,
                         NewQuery(modelId, IF isValid(Cache, now) THEN "resume" ELSE "fetch"))
  /\ UNCHANGED <<streamVars, split, convVars, capVars, fnVars, lastHandled, inflight>>

\* fetch answers query i: an error or a status that is not ok goes to the
\* catch block, a JSON body is awaited
FetchAnswers ==
  /\ \E i \in 1..Len(queries), response \in OverlapResponses :
       /\ queries[i].pc = "fetch"
       /\ queries' = [queries EXCEPT
                        ![i].pc = IF response.kind = "json" THEN "json" ELSE "resume",
                        ![i].body = response.data]
  /\ UNCHANGED <<streamVars, split, convVars, capVars, fnVars, lastHandled, inflight>>

\* query i after the rest of the try block of fetchMetadata gave f
Stored(q, f) ==
  [q EXCEPT !.pc = "resume", !.stored = IF f.fetched = "ok" THEN Stores + 1 ELSE 0]

\* response.json() answers query i: the entries are built and stored
BodyParsed ==
  /\ \E i \in 1..Len(queries) :
       /\ queries[i].pc = "json"
       /\ SetCache(fetchedCatalog(Cache, now, CatalogEntries(queries[i].body, <<>>)).svc)
       /\ queries' = [queries EXCEPT
                        ![i] = Stored(@, fetchedCatalog(Cache, now,
                                                        CatalogEntries(queries[i].body, <<>>)))]
  /\ UNCHANGED <<streamVars, split, convVars, fnVars, lastHandled, inflight, now, ticks,
                 answer>>

\* fetchMetadata has returned to query i: findMetadata reads the cache
QueryAnswers ==
  /\ \E i \in 1..Len(queries) :
       /\ queries[i].pc = "resume"
       /\ queries' = [queries EXCEPT
                        ![i].pc = "done",
                        ![i].seen = getAll(Cache, now),
                        ![i].result = thinkingOf(findMetadata(Cache, queries[i].modelId, now))]
  /\ UNCHANGED <<streamVars, split, convVars, capVars, fnVars, lastHandled, inflight>>

OverlapNext == StartQuery \/ FetchAnswers \/ BodyParsed \/ QueryAnswers \/ Tick

SpecOverlap == CapInit /\ [][OverlapNext]_vars

(***************************************************************************)
(* Chat requests in flight on one ChatRequestHandler.  The handler holds    *)
(* one StreamProcessor, made in its constructor, and handleChatRequest      *)
(* awaits processStream on it; a request gives way to the others where      *)
(* processStream awaits the next event of its stream.  Each request has a   *)
(* stream of its own and a sink of its own.                                 *)
(***************************************************************************)
MaxInflight == 2

\* the tool-use id the model gives the block of the n-th request
ToolUseIdOf(n) == IF n = 1 THEN <<"a">> ELSE IF n = 2 THEN <<"b">> ELSE <<"c">>

\* the streams a request may receive: one tool-use block, whole or in two
\* fragments, at index 0 under the name f or at index 1 under the name g
InflightStreams(n) ==
  { <<StartEvent(0, TRUE, ToolUseIdOf(n), <<"f">>),
      DeltaEvent(0, <<>>, <<>>, <<"{", "}">>), StopEvent(0), MessageStopEvent>>,
    <<StartEvent(0, TRUE, ToolUseIdOf(n), <<"f">>),
      DeltaEvent(0, <<>>, <<>>, <<"{">>), DeltaEvent(0, <<>>, <<>>, <<"}">>),
      StopEvent(0), MessageStopEvent>>,
    <<StartEvent(1, TRUE, ToolUseIdOf(n), <<"g">>),
      DeltaEvent(1, <<>>, <<>>, <<"{", "}">>), StopEvent(1), MessageStopEvent>> }

\* a request whose processStream call has just passed the resets
InflightRequest(stream) ==
  [pc |-> "loop", stream |-> stream, pos |-> 0, sink |-> <<>>, disturbed |-> FALSE]

\* the requests after another call reset the processor: disturbed records,
\* for a request in its loop, that this happened
Disturbed(reqs) ==
  [n \in 1..Len(reqs) |->
     IF reqs[n].pc = "loop" THEN [reqs[n] EXCEPT !.disturbed = TRUE] ELSE reqs[n]]

\* handleChatRequest reaches processStream for a new request: the resets
\* before the loop, on the processor of the handler
RequestStarts ==
  /\ Len(inflight) < MaxInflight
  /\ \E stream \in InflightStreams(Len(inflight) + 1) :
       inflight' = Append(Disturbed(inflight), InflightRequest(stream))
  /\ SetProcessor(processStreamEntry(Processor))
  /\ UNCHANGED <<thinkingPartAvailable, callVars, obsVars, split, convVars, svcVars,
                 lastHandled, queries>>

\* request n after its loop body handled the next event of its stream with
\* outcome r
EventHandled(q, r) == [q EXCEPT !.pos = @ + 1, !.sink = @ \o r.env.out]

\* the stream of a request yields its next event: the loop body runs on the
\* processor of the handler and reports to the sink of the request
RequestEvent ==
  /\ \E n \in 1..Len(inflight) :
       /\ inflight[n].pc = "loop"
       /\ inflight[n].pos < Len(inflight[n].stream)
       /\ SetProcessor(processEvent(Processor, inflight[n].stream[inflight[n].pos + 1],
                                    NewEnv(0, <<"r">>), TRUE).sp)
       /\ inflight' = [inflight EXCEPT
                         ![n] = EventHandled(@, processEvent(Processor,
                                                             inflight[n].stream[inflight[n].pos + 1],
                                                             NewEnv(0, <<"r">>), TRUE))]
  /\ UNCHANGED <<thinkingPartAvailable, callVars, obsVars, split, convVars, svcVars,
                 lastHandled, queries>>

\* the stream of a request ends: the loop exits, finally
RequestEnds ==
  /\ \E n \in 1..Len(inflight) :
       /\ inflight[n].pc = "loop"
       /\ inflight[n].pos = Len(inflight[n].stream)
       /\ inflight' = Disturbed([inflight EXCEPT ![n].pc = "returned"])
  /\ SetProcessor(processStreamFinally(Processor))
  /\ UNCHANGED <<thinkingPartAvailable, callVars, obsVars, split, convVars, svcVars,
                 lastHandled, queries>>

InflightNext == RequestStarts \/ RequestEvent \/ RequestEnds

SpecInflight == Init /\ [][InflightNext]_vars

(***************************************************************************)
(* Properties of the stream processor.                                      *)
(***************************************************************************)
\* positions of the ToolCall parts among the parts reported in the current call
EmittedToolCalls == {i \in 1..Len(emitted) : emitted[i].kind = "ToolCall"}

\* C2: two indices of one stream whose argument texts parse to deep-equal
\* objects under the same tool name yield one ToolCall part in total: no two
\* ToolCall parts of a stream have the same name and deep-equal input.
C2_DeepEqualCallsEmittedOnce ==
  \A i \in EmittedToolCalls : \A j \in EmittedToolCalls :
     (emitted[i].name = emitted[j].name /\ DeepEqual(emitted[i].input, emitted[j].input))
       => i = j

\* the calls tryEmit has parsed in the call in progress, as (name, arguments object)
ParsedCalls ==
  {[name |-> p.name, input |-> JSONParse(p.args).value] : p \in parseable}

\* ParsedCalls up to equality of the name and deep equality of the arguments
DistinctCalls ==
  {{q \in ParsedCalls : q.name = p.name /\ DeepEqual(q.input, p.input)} : p \in ParsedCalls}

\* C3: while a stream is processed, the number of ToolCall parts reported is
\* the number of distinct (name, arguments) pairs that have become parseable.
C3_CountOfDistinctCalls ==
  pc = "loop" => Cardinality(EmittedToolCalls) = Cardinality(DistinctCalls)

\* C4: at most one ToolCall part is reported per content-block index in one
\* call, whatever events arrive for it.
C4_OneEmissionPerIndex ==
  \A i \in EmittedToolCalls : \A j \in EmittedToolCalls :
     emitted[i].index = emitted[j].index => i = j

\* C4: an index that completes (emitted or deduplicated) loses its buffer
\* entry in the same step, and no step reports a ToolCall part for an index
\* that was completed before the step.
C4_CompletedIndexStaysSilent ==
  /\ \A idx \in Indices :
        (idx \notin toolBuffer.completedIndices /\ idx \in toolBuffer'.completedIndices)
          => BufPos(toolBuffer', idx) = 0
  /\ \A i \in (Len(emitted) + 1)..Len(emitted') :
        emitted'[i].kind = "ToolCall" => emitted'[i].index \notin toolBuffer.completedIndices

\* C4: both parts, over every behaviour
C4_AtMostOncePerIndex == []C4_OneEmissionPerIndex /\ [][C4_CompletedIndexStaysSilent]_vars

\* a completed index was started again and given arguments that parse
C4_Witness ==
  /\ pc = "loop"
  /\ \E i \in 1..Len(toolBuffer.buffers) :
       /\ toolBuffer.buffers[i].index \in toolBuffer.completedIndices
       /\ toolBuffer.buffers[i].name # <<>>
       /\ tryParseJSONObject(toolBuffer.buffers[i].args).ok
  /\ Cardinality(EmittedToolCalls) = 1

\* from a state in which the call has cancellation requested: nothing more
\* is reported, no event is handled, and the call ends with the buffer reset
C8_CancelledStep ==
  (pc = "loop" /\ cancelled) =>
     /\ emitted' = emitted
     /\ nEvents' = nEvents
     /\ pc' \in {"loop", "returned", "raised"}
     /\ (pc' # "loop" => toolBuffer' = InitToolBuffer)

\* C8: once cancellation is requested, the call reports no further part and
\* handles no further event; open tool-call buffers are not emitted, and the
\* call ends after the cleanup.
C8_NothingAfterCancel == [][C8_CancelledStep]_vars

\* a cancelled call returned while a started tool call was still open
C8_Witness ==
  /\ pc = "returned"
  /\ cancelled
  /\ dropped > 0
  /\ emitted # <<>>

\* C9: when processStream has returned or raised, the tool buffer is in its
\* initial state (no open buffers, no completed indices, no dedup keys, text
\* flag off, first-tool flag on), so the next call starts as a fresh instance.
C9_CleanAfterCall ==
  pc \in {"returned", "raised"} =>
     /\ toolBuffer = InitToolBuffer
     /\ thinkingBuffer = <<>>
     /\ hasEmittedThinking = FALSE

\* a second call reported a tool call identical to one of the first call
C9_Witness ==
  /\ runs = 2
  /\ pc = "raised"
  /\ ToolCallsOf(emitted) \cap prevCalls # {}

\* C10: a started block whose text parses as a JSON object when its
\* block-stop or the message-stop has been handled was reported or discarded
\* as a duplicate.
C10_NoParseableCallLost ==
  \A idx \in Indices :
     (blocks[idx].started /\ blocks[idx].stopped /\ tryParseJSONObject(blocks[idx].text).ok)
       => blocks[idx].done

ToolUseIds(vm) ==
  {vm.content[j].toolUse.toolUseId :
     j \in {k \in 1..Len(vm.content) : "toolUse" \in DOMAIN vm.content[k]}}

\* the ids of the tool-result blocks of a vendor message
ToolResultIds(vm) ==
  {vm.content[j].toolResult.toolUseId :
     j \in {k \in 1..Len(vm.content) : "toolResult" \in DOMAIN vm.content[k]}}

\* C5: for an accepted message list, every tool-result block of a vendor
\* user message carries the id of a tool-use block of the vendor assistant
\* message immediately before it.
C5_ResultsAnswerPrecedingAssistant ==
  validated = "ok" =>
     \A j \in 1..Len(converted.messages) :
        (converted.messages[j].role = "user" /\ ToolResultIds(converted.messages[j]) # {})
          => /\ j > 1
             /\ converted.messages[j - 1].role = "assistant"
             /\ ToolResultIds(converted.messages[j]) \subseteq ToolUseIds(converted.messages[j - 1])

\* C6: for an accepted message list, every vendor assistant message with
\* tool-use blocks is immediately followed by a vendor user message holding
\* a tool result for each of its tool-use ids.
C6_ToolUseFollowedByItsResults ==
  validated = "ok" =>
     \A j \in 1..Len(converted.messages) :
        (converted.messages[j].role = "assistant" /\ ToolUseIds(converted.messages[j]) # {})
          => /\ j < Len(converted.messages)
             /\ converted.messages[j + 1].role = "user"
             /\ ToolUseIds(converted.messages[j]) \subseteq ToolResultIds(converted.messages[j + 1])

\* message i is an assistant message whose tool calls are all answered: some
\* run of messages directly after it is made of user messages with nothing
\* but tool results, and holds a result for every call id
Answered(i) ==
  \E k \in 0..(Len(messages) - i) :
     /\ \A n \in (i + 1)..(i + k) :
          /\ messages[n].role = "user"
          /\ \A j \in 1..Len(messages[n].content) : messages[n].content[j].kind = "ToolResult"
     /\ toolCallIdsOf(messages[i]) \subseteq
          UNION {{messages[n].content[j].callId : j \in 1..Len(messages[n].content)} :
                   n \in (i + 1)..(i + k)}

\* C7: validateRequest raises exactly when the list is empty or some
\* assistant message has a tool call that is not answered.
C7_RaisesIffUnanswered ==
  validated # "none" =>
     (validated = "raised"
        <=> (messages = <<>>
               \/ \E i \in 1..Len(messages) : messages[i].role = "assistant" /\ ~Answered(i)))

\* an accepted list in which two calls are answered by two messages in turn
C7_Witness ==
  /\ validated = "ok"
  /\ \E i \in 1..Len(messages) :
       /\ messages[i].role = "assistant"
       /\ Cardinality(toolCallIdsOf(messages[i])) = 2
       /\ i + 2 <= Len(messages)
       /\ Len(messages[i + 1].content) = 1
       /\ Len(messages[i + 2].content) = 1

(***************************************************************************)
(* Forced emission attempts on text that does not parse.                    *)
(***************************************************************************)
\* indices for which tryEmit, forced by a block-stop or the message-stop,
\* logged that the accumulated text is no JSON object, in the call in progress
ForcedFailures == {e.index : e \in {d \in log : d.msg = "invalid"}}

\* a step of the call reports no ToolCall part for an index whose forced
\* attempt failed before the step, and the step in which a forced attempt
\* fails leaves the call running without a ToolCall part for that index
C11_DroppedStep ==
  pc = "loop" =>
     /\ \A i \in (Len(emitted) + 1)..Len(emitted') :
          emitted'[i].kind = "ToolCall" => emitted'[i].index \notin ForcedFailures
     /\ pc' = "loop" =>
          \A e \in log' \ log :
             e.msg = "invalid" =>
               \A i \in (Len(emitted) + 1)..Len(emitted') :
                  emitted'[i].kind = "ToolCall" => emitted'[i].index # e.index

\* C11: when a block-stop or the message-stop finds an index whose text does
\* not parse as a JSON object, the call goes on without raising and without a
\* ToolCall part for the index, and no ToolCall part is reported for that
\* index later in the same call.
C11_UnparseableCallDropped == [][C11_DroppedStep]_vars

(***************************************************************************)
(* Properties of the cache.                                                 *)
(***************************************************************************)
\* C17: after any sequence of set, setAll, clear and clock advances, isValid
\* is true exactly when the map is non-empty and the time is strictly before
\* the expiry; while it is false, get answers undefined for every key, getAll
\* the empty map and size 0; once setAll has run, the map holds exactly the
\* entries given and the expiry is the time of the call plus the TTL.
C17_ValidIffFilledAndFresh ==
  /\ isValid(Cache, now) <=> (cache # <<>> /\ now < expiry)
  /\ ~(cache # <<>> /\ now < expiry) =>
        /\ \A key \in CacheKeys : ~get(Cache, key, now).found
        /\ getAll(Cache, now) = <<>>
        /\ size(Cache, now) = 0
  /\ (cache # <<>> /\ now < expiry) =>
        /\ \A i \in 1..Len(cache) : get(Cache, cache[i].key, now).found
        /\ getAll(Cache, now) = cache
        /\ size(Cache, now) = Len(cache)
  /\ answer.op = "setAll" =>
        /\ cache = answer.entries
        /\ expiry = answer.at + CACHE_TTL

\* setAll stored two entries, and the clock has reached the expiry it set
C17_Witness ==
  /\ answer.op = "setAll"
  /\ Len(cache) = 2
  /\ now = expiry

(***************************************************************************)
(* Properties of the capability services.                                   *)
(***************************************************************************)
\* none of the entries the query could read has an id that matches modelId
NoCachedIdMatches(entries, modelId) ==
  \A i \in 1..Len(entries) : ~MatchesCachedId(entries[i].key, normalizeModelId(modelId))

\* the models of a vendor listing that the listing keeps
ListedModels(bedrock) ==
  {i \in 1..Len(bedrock.models) :
     bedrock.models[i].responseStreamingSupported /\ bedrock.models[i].text}

\* C18: when the metadata fetch fails, the catalog is empty or no cached id
\* matches the model, supportsThinking answers false and getModelProperties
\* answers no overrides, without raising; the model listing is then neither
\* failed nor shortened, and lists the model with context 200000 and output
\* 4096.
C18_FallsBackToDefaults ==
  /\ (/\ answer.op \in {"supportsThinking", "getModelProperties"}
      /\ \/ answer.fetched = "failed"
         \/ answer.entries = <<>>
         \/ NoCachedIdMatches(answer.entries, answer.modelId))
       => /\ ~answer.raised
          /\ answer.op = "supportsThinking" => answer.result = FALSE
          /\ answer.op = "getModelProperties" => ~answer.result.found
  /\ answer.op = "list" =>
        /\ ~answer.raised
        /\ (answer.authConfig /\ answer.bedrock.ok) =>
              Len(answer.infos) = Cardinality(ListedModels(answer.bedrock))
        /\ \A i \in 1..Len(answer.infos) :
              (answer.entries = <<>> \/ NoCachedIdMatches(answer.entries, answer.infos[i].id))
                => /\ answer.infos[i].maxInputTokens = 200000
                   /\ answer.infos[i].maxOutputTokens = 4096

\* the fetch failed while the expired cache still holds an entry whose id
\* matches the model asked about
C18_Witness ==
  /\ answer.op = "supportsThinking"
  /\ answer.fetched = "failed"
  /\ answer.result = FALSE
  /\ \E i \in 1..Len(cache) :
       /\ MatchesCachedId(cache[i].key, normalizeModelId(answer.modelId))
       /\ cache[i].value.supported_parameters.t = "list"
       /\ "reasoning" \in cache[i].value.supported_parameters.v

(***************************************************************************)
(* Properties of the schema sanitizer.                                      *)
(***************************************************************************)
\* C19: sanitizeSchema applied to its own result, under the same property
\* name, returns that result unchanged; and an input that is no object
\* (a number, a string, null, a boolean, an array) gives
\* {type: "object", properties: {}}.
C19_SanitizeIdempotent ==
  /\ schema.phase = "twice" => schema.twice = schema.once
  /\ (schema.phase \in {"once", "twice"} /\ schema.input.t # "obj")
       => schema.once = DefaultSchema

\* a composite under an integer-like name was replaced by its number branch,
\* coerced to integer, and sanitized again
C19_Witness ==
  /\ schema.phase = "twice"
  /\ schema.input.t = "obj"
  /\ ObjGet(schema.input.v, Composites[1]).t = "arr"
  /\ IsText(ObjGet(schema.once.v, TextType), TextInteger)
  /\ schema.once # schema.input

\* the toolChoice of a configuration, an undefined value when it has none
ToolChoiceIn(config) ==
  IF config.t = "obj" THEN ObjGet(config.v, TextToolChoice) ELSE JUndefined

\* the name in the toolSpec of the first tool of a configuration
FirstToolSpecName(config) ==
  ObjGet(ObjGet(ObjGet(config.v, TextTools).v[1].v, TextToolSpec).v, TextName).v

RECURSIVE PartsOutside(_, _, _)
PartsOutside(parts, failed, i) ==
  IF i > Len(parts) THEN <<>>
  ELSE (IF i \in failed THEN <<>> ELSE <<parts[i]>>) \o PartsOutside(parts, failed, i + 1)

\* C12: when the caller's progress.report raises for a part, the request is
\* not aborted: it never fails with that failure, the failure is logged,
\* every part processStream produces is still handed to the caller in order
\* (the caller has taken all but those its report raised for), and a request
\* that ends without cancellation has processed every event of its stream.
C12_SinkFailureNotFatal ==
  /\ request.pc = "failed" => request.error # "sink"
  /\ request.pc \in {"stream", "done", "failed"} =>
       /\ request.reportFailed \subseteq 1..Len(emitted)
       /\ request.delivered = PartsOutside(emitted, request.reportFailed, 1)
  /\ (request.pc = "done" /\ ~cancelled) => request.pos = Len(request.stream)

\* a request that ended normally although progress.report raised for a part,
\* with a later part taken by the caller
C12_Witness ==
  /\ request.pc = "done"
  /\ ~cancelled
  /\ ~request.rethrown
  /\ \E i \in request.reportFailed :
        /\ i < Len(emitted)
        /\ (i + 1) \notin request.reportFailed
        /\ emitted[i + 1] = request.delivered[Len(request.delivered)]

\* C13: a request that declares a tool whose name holds a character outside
\* letters, digits, underscore and hyphen is rejected before any stream is
\* started: once the checks are over it has failed, and
\* startConversationStream was not called.
C13_InvalidToolNameRejected ==
  (/\ request.pc \notin {"called", "checks"}
   /\ request.error # "auth"
   /\ validateTools(request.options.tools) = "raised")
    => /\ request.pc = "failed"
       /\ request.rethrown
       /\ request.started = 0

\* Math.ceil(n / 4) as the least k with 4k >= n
LeastQuarter(n) == CHOOSE k \in 0..n : 4 * k >= n /\ \A m \in 0..(k - 1) : 4 * m < n

\* the sum of f over 1..n
RECURSIVE SumTo(_, _)
SumTo(f, n) == IF n = 0 THEN 0 ELSE f[n] + SumTo(f, n - 1)

\* sum over the text parts of a message of ceil(length / 4)
TextTokensOf(message) ==
  SumTo([j \in 1..Len(message.content) |->
           IF message.content[j].kind = "Text"
           THEN LeastQuarter(Len(message.content[j].value)) ELSE 0],
        Len(message.content))

\* the estimate of the request: the text parts of all messages, plus the
\* serialized tool configuration when there is one
EstimatedTokens ==
  SumTo([i \in 1..Len(messages) |-> TextTokensOf(messages[i])], Len(messages))
  + (IF request.toolConfig.t = "obj"
     THEN LeastQuarter(Len(JSONStringify(request.toolConfig))) ELSE 0)

TokenLimit ==
  IF request.model.maxInputTokens > 1 THEN request.model.maxInputTokens ELSE 1

\* the request fails one of the checks: validation, tool choice, tool count,
\* token limit
FailsACheck ==
  \/ validated = "raised"
  \/ /\ request.supportsToolChoice
     /\ request.options.toolMode = "Required"
     /\ Len(request.options.tools) > 1
  \/ Len(request.options.tools) > MAX_TOOLS
  \/ EstimatedTokens > TokenLimit

NothingSent ==
  /\ request.fetches = 0
  /\ request.started = 0
  /\ cache = <<>>
  /\ ~request.requestInput.built
  /\ runs = 0
  /\ emitted = <<>>
  /\ request.delivered = <<>>

\* C14: the request checks come before any network interaction: a request
\* that fails validateRequest, the tool-choice check, the count of 128 tools
\* or the token limit has failed once the checks are over, with the error
\* rethrown, and neither the capability fetch nor startConversationStream
\* was invoked and no part was reported; a request that failed with one of
\* these errors failed a check.
C14_ChecksBeforeNetwork ==
  (request.pc \notin {"called", "checks"} /\ request.error # "auth") =>
     /\ FailsACheck =>
          /\ request.pc = "failed"
          /\ request.error \in {"validation", "toolChoice", "tooManyTools", "tokenLimit"}
          /\ request.rethrown
          /\ request.shown
          /\ NothingSent
     /\ request.error \in {"validation", "toolChoice", "tooManyTools", "tokenLimit"}
          => FailsACheck

\* a request of more than 128 tools that passes every other check, rejected
C14_Witness ==
  /\ request.pc = "failed"
  /\ request.error = "tooManyTools"
  /\ validated = "ok"
  /\ EstimatedTokens <= TokenLimit
  /\ NothingSent

\* C16: a request that passes the checks made before (authentication,
\* validateRequest, tool choice, at most 128 tools) fails with the token-limit
\* error exactly when the sum over the text parts of all messages of
\* ceil(length / 4), plus ceil(length of the serialized tool configuration
\* / 4), is greater than max(1, model.maxInputTokens); at or below the limit
\* it goes on.
C16_TokenLimitExact ==
  (/\ request.pc \notin {"called", "checks"}
   /\ request.error # "auth"
   /\ validated = "ok"
   /\ request.error # "toolChoice"
   /\ Len(request.options.tools) <= MAX_TOOLS)
    => /\ (request.pc = "failed" /\ request.error = "tokenLimit")
            <=> EstimatedTokens > TokenLimit
       /\ request.error = "tokenLimit" => request.rethrown

\* a request with a tool configuration whose estimate equals the limit, past
\* the checks
C16_Witness ==
  /\ request.pc = "thinking"
  /\ request.toolConfig.t = "obj"
  /\ request.model.maxInputTokens > 1
  /\ EstimatedTokens = TokenLimit

\* C20: a request dispatched with thinking attached has temperature 1.0
\* whatever the caller asked for; thinking is attached exactly when it is
\* enabled in the settings and the capability query answered that the model
\* supports reasoning; every other request has the caller's temperature, or
\* 0.7 when the caller gave none.
C20_ThinkingTemperature ==
  request.requestInput.built =>
     /\ request.requestInput.thinking => request.requestInput.temperature = 10
     /\ request.requestInput.thinking
          <=> (request.thinkingConfig /\ request.supportsThinking)
     /\ request.supportsThinking =>
          \E i \in 1..Len(cache) :
             /\ cache[i].value.supported_parameters.t = "list"
             /\ \/ "reasoning" \in cache[i].value.supported_parameters.v
                \/ "include_reasoning" \in cache[i].value.supported_parameters.v
     /\ ~request.requestInput.thinking =>
          request.requestInput.temperature
            = (IF request.options.temperature = <<>> THEN 7
               ELSE request.options.temperature[1])

\* a dispatched request with thinking attached whose caller asked for 0.3
C20_Witness ==
  /\ request.started = 1
  /\ request.requestInput.built
  /\ request.requestInput.thinking
  /\ request.options.temperature = <<3>>
  /\ request.requestInput.temperature = 10

(***************************************************************************)
(* Properties of the parts processStream reports.                           *)
(***************************************************************************)
\* C21: every ToolCall part reported in a call of processStream carries a
\* call id that is not the empty text.
C21_CallIdNonEmpty ==
  \A i \in EmittedToolCalls : emitted[i].callId # <<>>

(***************************************************************************)
(* Properties of the names convertTools gives the tools.                    *)
(***************************************************************************)
\* the name in the toolSpec of the i-th tool of a configuration
ToolSpecNameAt(config, i) ==
  ObjGet(ObjGet(ObjGet(config.v, TextTools).v[i].v, TextToolSpec).v, TextName).v

\* /^[\w-]+$/, the names validateTools accepts
AcceptedName(name) == name # <<>> /\ \A i \in 1..Len(name) : name[i] \in NameChars

\* C22: a declared tool whose name is made of letters, digits, underscores
\* and hyphens only has a toolSpec with exactly that name, and in Required
\* mode a toolChoice with exactly that name.
C22_AcceptedNameKept ==
  (toolsCall.phase = "done" /\ toolsCall.result.config.t = "obj") =>
     \A i \in 1..Len(toolsCall.tools) :
        AcceptedName(toolsCall.tools[i].name) =>
           /\ ToolSpecNameAt(toolsCall.result.config, i) = toolsCall.tools[i].name
           /\ (toolsCall.toolMode = "Required" /\ toolsCall.supportsToolChoice)
                => ToolChoiceIn(toolsCall.result.config)
                     = toolChoiceOf(toolsCall.tools[i].name)

(***************************************************************************)
(* Properties of the order of the vendor content.                           *)
(***************************************************************************)
RECURSIVE ContentBlocks(_)
\* the content blocks of a vendor message list, in the order of the list
ContentBlocks(vms) ==
  IF vms = <<>> THEN <<>> ELSE Head(vms).content \o ContentBlocks(Tail(vms))

IsPrefix(a, b) == Len(a) <= Len(b) /\ SubSeq(b, 1, Len(a)) = a

\* the vendor content of the whole list starts with the vendor content of
\* each of its prefixes: what the first k messages give comes before
\* everything a later message gives
OrderPreserved(msgs, toolResultFormat) ==
  \A k \in 0..Len(msgs) :
     IsPrefix(ContentBlocks(convertMessages(SubSeq(msgs, 1, k), toolResultFormat).messages),
              ContentBlocks(convertMessages(msgs, toolResultFormat).messages))

\* C25: convertMessages keeps the order of the input: no vendor content of
\* message i comes after vendor content of a later message; pending tool
\* results are flushed before content of a later message is emitted.
C25_OrderPreserved ==
  converted.done =>
     \E f \in ToolResultFormats :
        /\ converted.messages = convertMessages(messages, f).messages
        /\ OrderPreserved(messages, f)

(***************************************************************************)
(* Properties of the order of the parts.                                    *)
(***************************************************************************)
IsSuffix(a, b) == Len(a) <= Len(b) /\ SubSeq(b, Len(b) - Len(a) + 1, Len(b)) = a

\* the Text part of the text of a delta
TextPartOf(event) == IF event.text # <<>> THEN <<TextPart(event.text)>> ELSE <<>>

\* a Thinking part for the reasoning text of a delta, whatever the host
StatedDeltaParts(event) ==
  (IF event.reasoning # <<>> THEN <<ThinkingPart(event.reasoning)>> ELSE <<>>)
  \o TextPartOf(event)

\* a Thinking part for the reasoning text of a delta when the host has the
\* Thinking part kind
HostedDeltaParts(event, host) ==
  (IF event.reasoning # <<>> /\ host = "yes" THEN <<ThinkingPart(event.reasoning)>>
   ELSE <<>>)
  \o TextPartOf(event)

\* the parts out of the event handled last: they are the last parts of the
\* sink; for a delta they start with the parts firsts, in that order, up to a
\* Text part whose report raised, and go on with ToolCall parts only
ForwardedInOrder(firsts) ==
  /\ IsSuffix(lastHandled.out, emitted)
  /\ lastHandled.event.type = "contentBlockDelta" =>
       /\ IF lastHandled.threw /\ Len(lastHandled.out) <= Len(firsts)
          THEN IsPrefix(lastHandled.out, firsts)
          ELSE IsPrefix(firsts, lastHandled.out)
       /\ \A i \in (Len(firsts) + 1)..Len(lastHandled.out) :
             lastHandled.out[i].kind = "ToolCall"

\* the statement of C26 as written: every reasoning delta is forwarded as
\* its own Thinking part
C26_EveryDeltaForwarded == ForwardedInOrder(StatedDeltaParts(lastHandled.event))

\* C26: while a delta is handled, its reasoning text is handed to the sink
\* as one Thinking part when the host has the Thinking part kind (and as no
\* part when it has not), then its text as one Text part, both unchanged,
\* then at most ToolCall parts; the parts of an event are the last parts of
\* the sink when the event has been handled, so no part of an earlier event
\* comes after them.
C26_DeltasForwardedInOrder ==
  ForwardedInOrder(HostedDeltaParts(lastHandled.event, lastHandled.host))

\* a delta with reasoning text, text and tool input was handled after other
\* parts had been reported: a Thinking, a Text and a ToolCall part, in that order
C26_Witness ==
  /\ pc = "loop"
  /\ lastHandled.event.reasoning # <<>>
  /\ lastHandled.event.text # <<>>
  /\ Len(lastHandled.out) = 3
  /\ lastHandled.out[3].kind = "ToolCall"
  /\ Len(emitted) > 3

\* positions of the single-space Text parts among parts
Separators(parts) == {i \in 1..Len(parts) : parts[i] = TextPart(<<" ">>)}

\* a Text part other than the separator has been reported in the call
TextSeen == \E i \in 1..Len(emitted) : emitted[i].kind = "Text" /\ emitted[i].value # <<" ">>

\* a tool-use block-start has been handled in the call
ToolUseStarted == \E i \in Indices : blocks[i].started

\* the step that handles an event reports a separator exactly when the event
\* is a tool-use block-start, text has been forwarded before and no tool-use
\* block-start was handled before; the separator is then all the step reports
C27_SeparatorStep ==
  (pc = "loop" /\ nEvents' = nEvents + 1) =>
     /\ Separators(lastHandled'.out) # {}
          <=> /\ lastHandled'.event.type = "contentBlockStart"
              /\ lastHandled'.event.hasToolUse
              /\ TextSeen
              /\ ~ToolUseStarted
     /\ Separators(lastHandled'.out) # {} => lastHandled'.out = <<TextPart(<<" ">>)>>

\* at most one separator in the call, before every ToolCall part
C27_OneSeparatorFirst ==
  /\ Cardinality(Separators(emitted)) <= 1
  /\ \A i \in Separators(emitted) : \A j \in EmittedToolCalls : i < j

\* C27: processStream reports a single-space Text part exactly at a tool-use
\* block-start that comes after a non-empty text delta of the stream and
\* before which the stream had no tool-use block-start; a stream has at most
\* one separator, and it precedes every ToolCall part.
C27_SeparatorBeforeFirstTool == []C27_OneSeparatorFirst /\ [][C27_SeparatorStep]_vars

\* text, the separator and a ToolCall part were reported, in that order
C27_Witness ==
  /\ Len(emitted) = 3
  /\ emitted[1] = TextPart(<<"h">>)
  /\ emitted[2] = TextPart(<<" ">>)
  /\ emitted[3].kind = "ToolCall"

\* C28: when processStream has handled a message-stop event, no entry is
\* left in the tool-call buffer.
C28_NoneOpenAfterMessageStop ==
  (pc = "loop" /\ lastHandled.event.type = "messageStop") => toolBuffer.buffers = <<>>

(***************************************************************************)
(* Properties of the fetches of the capability queries.                     *)
(***************************************************************************)
QueryOps == {"supportsThinking", "getModelProperties"}

\* the step is a capability query of the client
QueryStep == now' = now /\ answer'.op \in QueryOps

\* the maps a successful fetch can store: for some JSON body, its records
\* under their base ids and nothing else
WholeCatalogs ==
  {CatalogEntries(r.data, <<>>).entries :
     r \in {x \in Responses : x.kind = "json" /\ CatalogEntries(x.data, <<>>).ok}}

\* a query fetches exactly when the cache is invalid, and a fetch that
\* succeeds replaces the whole map and sets the expiry a TTL ahead
FetchOnlyWhenInvalid ==
  /\ isValid(Cache, now) <=> answer'.fetched = "skipped"
  /\ answer'.fetched = "ok" =>
       /\ expiry' = now + CACHE_TTL
       /\ cache' \in WholeCatalogs
  /\ answer'.fetched # "ok" => (cache' = cache /\ expiry' = expiry)

\* the statement of C29 as written: after any successful fetch, no query
\* fetches before the TTL has elapsed
C29_StatedStep ==
  QueryStep =>
     /\ FetchOnlyWhenInvalid
     /\ (answer.op \in QueryOps /\ answer.fetched = "ok" /\ now < answer.at + CACHE_TTL)
          => answer'.fetched = "skipped"

C29_NoFetchAfterSuccess == [][C29_StatedStep]_vars

\* after a successful fetch that stored at least one record, no query
\* fetches before the TTL has elapsed; from then on a query fetches
C29_AmendedStep ==
  QueryStep =>
     /\ FetchOnlyWhenInvalid
     /\ (answer.op \in QueryOps /\ answer.fetched = "ok" /\ answer.entries # <<>>)
          => (answer'.fetched = "skipped" <=> now < answer.at + CACHE_TTL)

\* C29: a capability query fetches the catalog exactly when the cache is
\* invalid (empty or expired); after a fetch that stored at least one record
\* no query fetches until 24 hours have passed, and the first query from
\* then on fetches; a fetch that succeeds replaces the whole map.
C29_FetchOnlyWhenInvalid == [][C29_AmendedStep]_vars

\* a query at the expiry of a filled cache fetched, and replaced the map by
\* another catalog
C29_Witness ==
  /\ answer.op \in QueryOps
  /\ answer.fetched = "ok"
  /\ answer.at = CACHE_TTL
  /\ expiry = 2 * CACHE_TTL
  /\ cache = CatalogEntries(<<ModelOdd, ModelC3Legacy>>, <<>>).entries

\* the catalogs the overlapping queries can be answered with
OverlapCatalogs ==
  {CatalogEntries(r.data, <<>>).entries : r \in {x \in OverlapResponses : x.kind = "json"}}

\* the catalog of the fetch whose try block ended last
LastCatalog ==
  LET i == CHOOSE j \in 1..Len(queries) : queries[j].stored = Stores
  IN  CatalogEntries(queries[i].body, <<>>).entries

AllQueriesDone == \A i \in 1..Len(queries) : queries[i].pc = "done"

\* C30: when capability queries overlap while the cache is invalid, each may
\* fetch; once all have completed the cache holds exactly the catalog of the
\* fetch that completed last, the map is at every moment one whole catalog
\* or empty, and every query read one whole catalog or nothing
C30_LastWriterWins ==
  /\ (AllQueriesDone /\ Stores > 0) => cache = LastCatalog
  /\ cache \in OverlapCatalogs \cup {<<>>}
  /\ \A i \in 1..Len(queries) : queries[i].seen \in OverlapCatalogs \cup {<<>>}

\* two queries both fetched, the one that started first stored its catalog
\* last, the catalogs differ, and both have answered
C30_Witness ==
  /\ Len(queries) >= 2
  /\ AllQueriesDone
  /\ queries[1].fetched /\ queries[2].fetched
  /\ queries[1].stored = 2 /\ queries[2].stored = 1
  /\ queries[1].body # queries[2].body
  /\ cache = CatalogEntries(queries[1].body, <<>>).entries
  /\ queries[2].seen = CatalogEntries(queries[2].body, <<>>).entries

\* the ToolCall parts in the sink of a request
SinkCalls(q) == {q.sink[i] : i \in {j \in 1..Len(q.sink) : q.sink[j].kind = "ToolCall"}}

\* part carries the name and the arguments of the tool-use block of the
\* stream of q: every stream has one block, whose arguments spell {}
CallOfBlock(part, q) ==
  /\ part.name = q.stream[1].name
  /\ part.input = [t |-> "obj", v |-> <<>>]

\* C23: with requests in flight on one handler, no request's start or end
\* discards what another has open: a request whose stream was handled to
\* its end has the tool call of its block in its sink
C23_EveryCallEmitted ==
  \A n \in 1..Len(inflight) :
    inflight[n].pc = "returned" => \E part \in SinkCalls(inflight[n]) : CallOfBlock(part, inflight[n])

\* C24: with requests in flight on one handler, every ToolCall part in the
\* sink of a request has the id, the name and the arguments of the block of
\* that request's stream, and a request that no start or end of another
\* call disturbed has its call in its sink
C24_OwnBlockOnly ==
  \A n \in 1..Len(inflight) :
    /\ \A part \in SinkCalls(inflight[n]) :
         part.callId = inflight[n].stream[1].toolUseId /\ CallOfBlock(part, inflight[n])
    /\ (inflight[n].pc = "returned" /\ ~inflight[n].disturbed)
         => SinkCalls(inflight[n]) # {}

\* C31: right after set(k, v) the entry is readable: isValid() is true and
\* get(k) finds an entry, also when the earlier contents had expired
C31_SetMakesReadable ==
  (answer.op = "set" /\ answer.at = now)
    => (isValid(Cache, now) /\ get(Cache, answer.key, now).found)

\* a is a contiguous part of b
IsInfix(a, b) == \E i \in 0..Len(b) : \E j \in i..Len(b) : SubSeq(b, i + 1, j) = a

\* the normal form of an id: lowercased, every dot a dash, and, when strip
\* holds, without its leading region prefix
NormalForm(id, strip) ==
  DotsToDashes(LowerCased(IF strip THEN StripRegionPrefix(id) ELSE id))

\* the positions of the entries whose id matches the queried id, the prefix
\* of the cached id being stripped or not
MatchingPositions(entries, modelId, strip) ==
  {i \in 1..Len(entries) :
     \/ IsInfix(NormalForm(entries[i].key, strip), NormalForm(modelId, TRUE))
     \/ IsInfix(NormalForm(modelId, TRUE), NormalForm(entries[i].key, strip))}

FirstOf(S) == CHOOSE i \in S : \A j \in S : i <= j

\* the answer comes from the first of the entries at the positions S, and
\* tells that nothing was found when S is empty
AnsweredFrom(S) ==
  IF answer.op = "supportsThinking"
  THEN answer.result =
         (S # {} /\ answer.entries[FirstOf(S)].value.supported_parameters.t = "list"
                 /\ {"reasoning", "include_reasoning"}
                      \cap answer.entries[FirstOf(S)].value.supported_parameters.v # {})
  ELSE /\ answer.result.found = (S # {})
       /\ S # {} =>
            /\ answer.result.contextLength = answer.entries[FirstOf(S)].value.context_length
            /\ answer.result.maxOutputTokens
                 = answer.entries[FirstOf(S)].value.max_completion_tokens

ObjectValuesOf(val) ==
  {OwnProperties(val)[i].v :
     i \in {j \in 1..Len(OwnProperties(val)) : OwnProperties(val)[j].v.t = "obj"}}

\* the schemas right under properties and items of the schema object val
SchemasUnder(val) ==
  UNION {IF p.k = TextProperties /\ p.v.t \in {"obj", "arr"} THEN ObjectValuesOf(p.v)
         ELSE IF p.k = TextItems /\ p.v.t = "obj" THEN {p.v}
         ELSE IF p.k = TextItems /\ p.v.t = "arr" THEN ObjectValuesOf(p.v)
         ELSE {} : p \in SeqToSet(val.v)}

\* the schema object val and every schema under it carry allow-listed keywords only
RECURSIVE AllowListedOnly(_)
AllowListedOnly(val) ==
  /\ \A p \in SeqToSet(val.v) : p.k \in AllowedKeywords
  /\ \A inner \in SchemasUnder(val) : AllowListedOnly(inner)

\* C33: in the result of sanitizeSchema the root and every schema nested
\* under properties or items, at any depth, carry only allow-listed keywords
C33_AllowListedOnly ==
  schema.phase \in {"once", "twice"} => AllowListedOnly(schema.once)

Letters == SeqToSet(Upper) \cup SeqToSet(Lower)

\* the positions of s that do not continue a run of underscores
RunHeads(s) == {i \in 1..Len(s) : s[i] # "_" \/ i = 1 \/ s[i - 1] # "_"}

\* s with every run of underscores reduced to one underscore
RunsReduced(s) ==
  [k \in 1..Cardinality(RunHeads(s)) |->
     s[CHOOSE i \in RunHeads(s) : Cardinality({j \in RunHeads(s) : j <= i}) = k]]

\* s behind tool_ unless it starts with a letter
LetterFirst(s) ==
  IF s # <<>> /\ s[1] \in Letters THEN s ELSE TextTool \o <<"_">> \o s

\* the first 64 characters of s
First64(s) == [i \in 1..(IF Len(s) < 64 THEN Len(s) ELSE 64) |-> s[i]]

\* the result starts with a letter, has 1 to 64 characters, all of the set
WellFormedName(r) ==
  /\ Len(r) \in 1..64
  /\ r[1] \in Letters
  /\ \A i \in 1..Len(r) : r[i] \in NameChars

\* the result is what the steps give from the name after its characters
\* outside the set were treated, and tool for no name
NamedFrom(treated) ==
  /\ WellFormedName(toolsCall.result)
  /\ toolsCall.result =
       IF toolsCall.name \in {Undefined, <<>>} THEN TextTool
       ELSE First64(RunsReduced(LetterFirst(treated)))

\* C34 as stated: the characters outside [A-Za-z0-9_-] are stripped, the
\* kept characters staying in order; then tool_ is prefixed unless the name
\* starts with a letter, runs of underscores are collapsed and the name is
\* cut to 64 characters; tool for an empty or non-string name
C34_OutsideCharsStripped ==
  toolsCall.phase = "named"
    => NamedFrom(SelectSeq(toolsCall.name, LAMBDA c : c \in NameChars))

\* C34: every character outside [A-Za-z0-9_-] is replaced by an underscore;
\* then tool_ is prefixed unless the name starts with a letter, runs of
\* underscores are collapsed and the name is cut to 64 characters; tool for
\* an empty or non-string name; the result starts with a letter, has 1 to 64
\* characters and only characters of the set
C34_OutsideCharsReplaced ==
  toolsCall.phase = "named"
    => NamedFrom([i \in 1..Len(toolsCall.name) |->
                    IF toolsCall.name[i] \in NameChars THEN toolsCall.name[i] ELSE "_"])

\* a name of 65 characters that starts with a digit and a character outside
\* the set: prefixed, the character replaced, cut to 64 characters
C34_Witness ==
  /\ toolsCall.phase = "named"
  /\ toolsCall.name = <<"1", " ">> \o NameFiller
  /\ toolsCall.result = TextTool \o <<"_", "1", "_">> \o [i \in 1..57 |-> "b"]

(***************************************************************************)
(* Properties of the vendor messages of mixed input messages.              *)
(***************************************************************************)
RECURSIVE JoinedText(_)
\* the values of the Text parts of a content, joined in input order
JoinedText(content) ==
  IF content = <<>> THEN <<>>
  ELSE (IF Head(content).kind = "Text" THEN Head(content).value ELSE <<>>)
       \o JoinedText(Tail(content))

\* the part is a data part of a supported image format
SupportedImage(part) ==
  /\ part.kind = "Data"
  /\ Len(part.mimeType) >= 6
  /\ SubSeq(part.mimeType, 1, 6) = <<"i", "m", "a", "g", "e", "/">>
  /\ ImageFormat(part.mimeType) \in SupportedImageFormats

\* the image block of a supported image part
ImageBlockOf(part) ==
  [image |-> [format |-> ImageFormat(part.mimeType), source |-> [bytes |-> part.data]]]

\* the image blocks of the supported image parts of a content, in input order
ImageBlocksOf(content) ==
  [i \in 1..Len(SelectSeq(content, SupportedImage)) |->
     ImageBlockOf(SelectSeq(content, SupportedImage)[i])]

\* the joined text, when there is any, then the image blocks
TextThenImages(content) ==
  (IF JoinedText(content) # <<>> THEN <<[text |-> JoinedText(content)]>> ELSE <<>>)
  \o ImageBlocksOf(content)

\* a user or assistant message of non-empty text and supported images only
TextImageOnly(m) ==
  /\ m.role \in {"user", "assistant"}
  /\ m.content # <<>>
  /\ \A j \in 1..Len(m.content) :
       \/ m.content[j].kind = "Text" /\ m.content[j].value # <<>>
       \/ SupportedImage(m.content[j])

\* a message of another role that holds text parts only
OtherRoleText(m) ==
  /\ m.role \notin {"user", "assistant"}
  /\ \A j \in 1..Len(m.content) : m.content[j].kind = "Text"

\* what the list up to message k converts to
ConvertedUpTo(k, toolResultFormat) ==
  convertMessages(SubSeq(messages, 1, k), toolResultFormat)

\* message k adds exactly the vendor messages added to what the messages
\* before it convert to, and the system blocks sys
AddsAt(k, added, sys) ==
  \A f \in ToolResultFormats :
    /\ ConvertedUpTo(k, f).messages = ConvertedUpTo(k - 1, f).messages \o added
    /\ ConvertedUpTo(k, f).system = ConvertedUpTo(k - 1, f).system \o sys

\* C35: a user or assistant message of non-empty text and supported images
\* only converts to exactly one vendor message of its role, after all that
\* the messages before it convert to, with the joined text and then the
\* image blocks as content; the text parts of a message of another role
\* become system blocks and no vendor message
C35_TextMessageInPlace ==
  converted.done =>
    \A k \in 1..Len(messages) :
      /\ TextImageOnly(messages[k])
           => AddsAt(k, <<[role |-> messages[k].role,
                           content |-> TextThenImages(messages[k].content)]>>, <<>>)
      /\ OtherRoleText(messages[k])
           => AddsAt(k, <<>>, [j \in 1..Len(messages[k].content) |->
                                 [text |-> messages[k].content[j].value]])

HasKind(content, kind) == \E j \in 1..Len(content) : content[j].kind = kind

\* an assistant input message with at least one ToolCall part
AssistantWithCalls(m) == m.role = "assistant" /\ HasKind(m.content, "ToolCall")

\* an assistant input message of text or images, without tool calls and results
AssistantPlain(m) ==
  /\ m.role = "assistant"
  /\ ~HasKind(m.content, "ToolCall") /\ ~HasKind(m.content, "ToolResult")
  /\ TextThenImages(m.content) # <<>>

\* a vendor assistant message with, or without, a toolUse block
VendorWithCalls(vm) ==
  vm.role = "assistant" /\ \E j \in 1..Len(vm.content) : "toolUse" \in DOMAIN vm.content[j]

VendorPlain(vm) == vm.role = "assistant" /\ ~VendorWithCalls(vm)

IsToolCall(part) == part.kind = "ToolCall"

\* one toolUse block per ToolCall part that has a call id, in input order
ToolUsesOf(content) ==
  [i \in 1..Len(SelectSeq(content, IsToolCall)) |->
     [toolUse |-> [toolUseId |-> SelectSeq(content, IsToolCall)[i].callId,
                   name |-> SelectSeq(content, IsToolCall)[i].name,
                   input |-> SelectSeq(content, IsToolCall)[i].input]]]

\* C36: the vendor assistant messages with toolUse blocks are, one for one
\* and in order, the assistant input messages with ToolCall parts, each with
\* the joined text (if any), then the image blocks, then one toolUse block
\* per ToolCall part in input order; such an input message gives no other
\* assistant message
C36_TextBeforeToolUse ==
  converted.done =>
    /\ SelectSeq(converted.messages, VendorWithCalls)
         = [i \in 1..Len(SelectSeq(messages, AssistantWithCalls)) |->
              [role |-> "assistant",
               content |-> TextThenImages(SelectSeq(messages, AssistantWithCalls)[i].content)
                             \o ToolUsesOf(SelectSeq(messages, AssistantWithCalls)[i].content)]]
    /\ Len(SelectSeq(converted.messages, VendorPlain))
         = Len(SelectSeq(messages, AssistantPlain))

\* an assistant message whose text parts stand after its first tool call,
\* with an image between them, behind another message: its vendor message
\* has the text first, then the image, then the two toolUse blocks
C36_Witness ==
  /\ converted.done
  /\ Len(messages) >= 2
  /\ messages[2].content = <<CallA, TextPart(<<"h">>), ImagePng, TextPart(<<"k">>), CallB>>
  /\ \E i \in 1..Len(converted.messages) :
       /\ Len(converted.messages[i].content) = 4
       /\ converted.messages[i].content[1] = [text |-> <<"h", "k">>]
       /\ "image" \in DOMAIN converted.messages[i].content[2]
       /\ converted.messages[i].content[3].toolUse.toolUseId = <<"a">>
       /\ converted.messages[i].content[4].toolUse.toolUseId = <<"b">>

\* some vendor message has a text block that holds the text
InSomeTextBlock(text, vms) ==
  \E i \in 1..Len(vms) : \E j \in 1..Len(vms[i].content) :
    "text" \in DOMAIN vms[i].content[j] /\ IsInfix(text, vms[i].content[j].text)

\* C37: every non-empty text part of a user or assistant input message is
\* in the text block of some vendor message, also when the message carries
\* tool results
C37_NoTextDropped ==
  converted.done =>
    \A k \in 1..Len(messages) :
      messages[k].role \in {"user", "assistant"} =>
        \A j \in 1..Len(messages[k].content) :
          (messages[k].content[j].kind = "Text" /\ messages[k].content[j].value # <<>>)
            => InSomeTextBlock(messages[k].content[j].value, converted.messages)

IsToolResultBlock(block) == "toolResult" \in DOMAIN block

\* the content blocks of the toolResult blocks of the vendor messages
ToolResultContents(vms) ==
  UNION {SeqToSet(b.toolResult.content) : b \in SeqToSet(SelectSeq(ContentBlocks(vms), IsToolResultBlock))}

\* the conversion was made for a profile that requires JSON tool results
ConvertedAsJson ==
  converted.done /\ converted.messages = convertMessages(messages, "json").messages

\* C38: under a profile that requires JSON tool results, every content block
\* of a toolResult block is {json: X} with X a JSON object, or {text: ...}
C38_JsonIsObject ==
  ConvertedAsJson =>
    \A c \in ToolResultContents(converted.messages) :
      \/ "text" \in DOMAIN c
      \/ "json" \in DOMAIN c /\ c.json.t = "obj"

\* C39: at every point of a stream no content-block index is both in the
\* open-buffer map and in the completed set, so a block-start always opens
\* a call that can still be emitted
C39_OpenNotCompleted ==
  \A index \in toolBuffer.completedIndices : BufPos(toolBuffer, index) = 0

=============================================================================
